---- MODULE Spec2Model ----
(***************************************************************************)
(* Model of the Markdown conversion core of hwpxlib_python                 *)
(* (hwpxlib_python/converters.py): the inline tokenizer                    *)
(* MarkdownToHWPXConverter._parse_inline_formatting, the block parser      *)
(* MarkdownToHWPXConverter._parse_markdown_blocks and the formatter        *)
(* MarkdownFormatter.format_text, as a whole and with its two loops (the   *)
(* table detector _format_tables and the line-break loop) step by step,    *)
(* BatchConverter.convert_directory, the populator                         *)
(* MarkdownToHWPXConverter._populate_content, and HWPXProcessor.           *)
(*                                                                         *)
(* A Python string is a sequence of one-character strings.  Python indices *)
(* are kept 0-based: the character text[k] of the source is At(text, k).   *)
(***************************************************************************)
EXTENDS Integers, Sequences, FiniteSets, TLC

VARIABLES
    tText,      \* tokenizer: the line being scanned (parameter text)
    tI,         \* tokenizer: the scan position i
    tSegs,      \* tokenizer: the list segments of (text, format_type)
    tSpans,     \* tokenizer, history: the source range each iteration consumed
    tIters,     \* tokenizer, history: number of loop iterations executed
    tPc,        \* tokenizer: "off", "scan" (in the while loop), "done" (the
                \* segments were returned) or "runs" (the text runs were made)
    tRuns,      \* tokenizer: the text runs _create_formatted_text_runs added
    pLines,     \* block parser: lines = text.split('\n')
    pI,         \* block parser: the line index i
    pBlocks,    \* block parser: the list blocks
    pSrc,       \* block parser, history: the line range each block was built from
    pIters,     \* block parser, history: number of outer iterations executed
    pPc,        \* block parser: "off", "scan" (in the outer loop) or "done"
    fText,      \* formatter: the text given to format_text
    fTables,    \* formatter: self.format_tables
    fPreserve,  \* formatter: self.preserve_linebreaks
    fOut,       \* formatter: the value format_text returned
    fOut2,      \* formatter: the value format_text returned for fOut
    fPc,        \* formatter: "off", "start", "once" or "twice" (calls made)
    ftLines,    \* table detector: lines = text.split('\n')
    ftK,        \* table detector: index of the line the for loop is at
    ftInTable,  \* table detector: in_table
    ftRows,     \* table detector: table_rows
    ftOut,      \* table detector: formatted_lines
    ftGroups,   \* table detector, history: the groups rendered so far
    ftResult,   \* table detector: the text _format_tables returned
    ftPc,       \* table detector: "off", "scan" (in the for loop) or "done"
    mLines,     \* line merger: lines = formatted.split('\n')
    mI,         \* line merger: the line index i
    mOut,       \* line merger: processed_lines
    mSrc,       \* line merger, history: the line range each output line is from
    mPc,        \* line merger: "off", "scan" (in the while loop) or "done"
    bFiles,     \* batch: hwpx_files, each with whether its output path exists
    bOverwrite, \* batch: the parameter overwrite
    bI,         \* batch: index of the file the for loop is at
    bSuccess,   \* batch: success_count
    bOutcome,   \* batch, history: what happened to each file, in loop order
    bResult,    \* batch: the tuple convert_directory returned
    bWritten,   \* batch, history: the files whose output path was written
    bExit,      \* batch: the exit status of the command, -1 while it runs
    bFailed,    \* batch: the number the command prints after "Failed:"
    bPc,        \* batch: "off", "start", "loop", "done", "raised", "exited"
    popLines,   \* populator: the lines of markdown_text
    popBlocks,  \* populator: blocks, as _parse_markdown_blocks returned them
    popK,       \* populator: index of the block the for loop is at
    popSec,     \* populator: the paragraphs of the section, in order
    popSrc,     \* populator, history: the block each paragraph was made for
    popPc,      \* populator: "off", "start", "loop", "hung" or "done"
    hwpx_file,  \* processor: self._hwpx_file, None or the object of a path
    procOp,     \* processor, history: the method called last
    procCase,   \* processor, history: what the last call met
    procOut,    \* processor, history: how the last call ended
    procPrev,   \* processor, history: self._hwpx_file before the last call
    procEver,   \* processor, history: some load_file has returned
    procOps,    \* processor, history: the number of calls made
    procPc      \* processor: "off" or "on"

tokVars == <<tText, tI, tSegs, tSpans, tIters, tPc, tRuns>>
parseVars == <<pLines, pI, pBlocks, pSrc, pIters, pPc>>
fmtVars == <<fText, fTables, fPreserve, fOut, fOut2, fPc>>
tblVars == <<ftLines, ftK, ftInTable, ftRows, ftOut, ftGroups, ftResult, ftPc>>
mergeVars == <<mLines, mI, mOut, mSrc, mPc>>
batchVars ==
    <<bFiles, bOverwrite, bI, bSuccess, bOutcome, bResult, bWritten, bExit,
      bFailed, bPc>>
popVars == <<popLines, popBlocks, popK, popSec, popSrc, popPc>>
procVars ==
    <<hwpx_file, procOp, procCase, procOut, procPrev, procEver, procOps, procPc>>
vars == <<tText, tI, tSegs, tSpans, tIters, tPc, tRuns,
          pLines, pI, pBlocks, pSrc, pIters, pPc,
          fText, fTables, fPreserve, fOut, fOut2, fPc,
          ftLines, ftK, ftInTable, ftRows, ftOut, ftGroups, ftResult, ftPc,
          mLines, mI, mOut, mSrc, mPc,
          bFiles, bOverwrite, bI, bSuccess, bOutcome, bResult, bWritten,
          bExit, bFailed, bPc,
          popLines, popBlocks, popK, popSec, popSrc, popPc,
          hwpx_file, procOp, procCase, procOut, procPrev, procEver, procOps,
          procPc>>

\* the variables of the components other than the one an action belongs to
notTok ==
    <<parseVars, fmtVars, tblVars, mergeVars, batchVars, popVars, procVars>>
notParse ==
    <<tokVars, fmtVars, tblVars, mergeVars, batchVars, popVars, procVars>>
notFmt ==
    <<tokVars, parseVars, tblVars, mergeVars, batchVars, popVars, procVars>>
notTbl ==
    <<tokVars, parseVars, fmtVars, mergeVars, batchVars, popVars, procVars>>
notMerge ==
    <<tokVars, parseVars, fmtVars, tblVars, batchVars, popVars, procVars>>
notBatch ==
    <<tokVars, parseVars, fmtVars, tblVars, mergeVars, popVars, procVars>>
notPop ==
    <<tokVars, parseVars, fmtVars, tblVars, mergeVars, batchVars, procVars>>
notProc ==
    <<tokVars, parseVars, fmtVars, tblVars, mergeVars, batchVars, popVars>>

\* a component that is not running in the specification at hand
TokOff ==
    /\ tText = <<>> /\ tI = 0 /\ tSegs = <<>> /\ tSpans = <<>>
    /\ tIters = 0 /\ tPc = "off" /\ tRuns = <<>>

ParseOff ==
    /\ pLines = <<>> /\ pI = 0 /\ pBlocks = <<>> /\ pSrc = <<>>
    /\ pIters = 0 /\ pPc = "off"

FmtOff ==
    /\ fText = <<>> /\ fTables = FALSE /\ fPreserve = FALSE
    /\ fOut = <<>> /\ fOut2 = <<>> /\ fPc = "off"

TblOff ==
    /\ ftLines = <<>> /\ ftK = 0 /\ ftInTable = FALSE /\ ftRows = <<>>
    /\ ftOut = <<>> /\ ftGroups = <<>> /\ ftResult = <<>> /\ ftPc = "off"

MergeOff ==
    /\ mLines = <<>> /\ mI = 0 /\ mOut = <<>> /\ mSrc = <<>> /\ mPc = "off"

BatchOff ==
    /\ bFiles = <<>> /\ bOverwrite = FALSE /\ bI = 0 /\ bSuccess = 0
    /\ bOutcome = <<>> /\ bResult = <<>> /\ bWritten = {} /\ bExit = -1
    /\ bFailed = 0 /\ bPc = "off"

PopOff ==
    /\ popLines = <<>> /\ popBlocks = <<>> /\ popK = 0 /\ popSec = <<>>
    /\ popSrc = <<>> /\ popPc = "off"

ProcOff ==
    /\ hwpx_file = 0 /\ procOp = "" /\ procCase = "" /\ procOut = ""
    /\ procPrev = 0 /\ procEver = FALSE /\ procOps = 0 /\ procPc = "off"

----------------------------------------------------------------------------
(* Python string primitives *)

SetMin(S) == CHOOSE x \in S : \A y \in S : x <= y
SetMax(S) == CHOOSE x \in S : \A y \in S : x >= y

SeqsUpTo(S, n) == UNION {[1..k -> S] : k \in 0..n}

\* text[k]
At(text, k) == text[k + 1]

\* text[a:b] for 0 <= a
Slice(text, a, b) ==
    LET hi == IF b < Len(text) THEN b ELSE Len(text)
    IN  IF a >= hi THEN <<>> ELSE SubSeq(text, a + 1, hi)

\* text[a:]
SliceFrom(text, a) == Slice(text, a, Len(text))

\* text.find(sub, start): lowest index >= start at which sub occurs, else -1
Find(text, sub, start) ==
    LET hits == {k \in start..(Len(text) - Len(sub)) :
                    SubSeq(text, k + 1, k + Len(sub)) = sub}
    IN  IF hits = {} THEN -1 ELSE SetMin(hits)

\* sub in text
Contains(text, sub) == Find(text, sub, 0) # -1

\* str.isspace() / regex \s on the characters of the model
IsSpace(c) == c \in {" ", "\t", "\n"}

\* text.rstrip()
RStrip(text) ==
    LET keep == {k \in 1..Len(text) : ~IsSpace(text[k])}
    IN  IF keep = {} THEN <<>> ELSE SubSeq(text, 1, SetMax(keep))

\* text.lstrip()
LStrip(text) ==
    LET keep == {k \in 1..Len(text) : ~IsSpace(text[k])}
    IN  IF keep = {} THEN <<>> ELSE SubSeq(text, SetMin(keep), Len(text))

\* text.strip()
Strip(text) == LStrip(RStrip(text))

\* ''.join(parts)
RECURSIVE Concat(_)
Concat(parts) ==
    IF parts = <<>> THEN <<>> ELSE Head(parts) \o Concat(Tail(parts))

\* sep.join(parts)
RECURSIVE Join(_, _)
Join(parts, sep) ==
    IF parts = <<>> THEN <<>>
    ELSE IF Len(parts) = 1 THEN parts[1]
    ELSE parts[1] \o sep \o Join(Tail(parts), sep)

\* text.split(c) for a one-character separator c
RECURSIVE Split(_, _)
Split(text, c) ==
    LET at == Find(text, <<c>>, 0)
    IN  IF at = -1 THEN <<text>>
        ELSE <<Slice(text, 0, at)>> \o Split(SliceFrom(text, at + 1), c)

----------------------------------------------------------------------------
(* MarkdownToHWPXConverter._parse_inline_formatting *)

TokMaxLen == 5
\* The grave accent of Markdown code spans cannot be written inside a TLA+
\* string; the model writes it as an apostrophe.
Backtick == "'"

TokAlphabet == {"a", "*", Backtick, "[", "]", "(", ")"}

\* Longer lines given to the tokenizer besides every line of the bounded
\* alphabet: bold, italic and code spans with plain text between them, and
\* links with a URL
TokLineSamples ==
    { <<"*", "*", "a", "*", "*", "a", "*", "a", "*", "a", Backtick, "a", Backtick>>,
      <<"a", "a", "*", "*", "a", "a", "*", "*", "a">>,
      <<"[", "a", "]", "(", "b", ")">>,
      <<"a", "[", "a", "]", "(", "b", "b", ")", "a">>,
      <<"[", "]", "(", "b", ")">>,
      <<"[", "a", "]", "(", "b", "(", "b", ")", "a", ")">> }

BoldMark == <<"*", "*">>

\* the characters that stop a plain run
IsMarker(c) == c \in {"*", Backtick, "["}

\* bold_text = text[i+1:end]: the slice starts one character early
BoldTextEarly(text, i, end) == Slice(text, i + 1, end)

\* bold_text = text[i+2:end]
BoldText(text, i, end) == Slice(text, i + 2, end)

\* italic_text = text[i:end]: the opening '*' is kept
ItalicTextKeepMark(text, i, end) == Slice(text, i, end)

\* italic_text = text[i+1:end]
ItalicText(text, i, end) == Slice(text, i + 1, end)

\* code_text = text[i+1:end]
CodeText(text, i, end) == Slice(text, i + 1, end)

\* link_text = text[i+1:end_bracket]
LinkText(text, i, endBracket) == Slice(text, i + 1, endBracket)

\* the conditions under which the bold branch appends and continues
BoldAt(text, i) ==
    /\ i < Len(text) - 1
    /\ Slice(text, i, i + 2) = BoldMark
    /\ Find(text, BoldMark, i + 2) # -1

\* the conditions under which the italic branch appends and continues
ItalicAt(text, i) ==
    /\ i < Len(text) - 1
    /\ At(text, i) = "*"
    /\ (i = 0 \/ At(text, i - 1) # "*")
    /\ (i + 1 >= Len(text) \/ At(text, i + 1) # "*")
    /\ Find(text, <<"*">>, i + 1) # -1

\* the conditions under which the code branch appends and continues
CodeAt(text, i) ==
    /\ At(text, i) = Backtick
    /\ Find(text, <<Backtick>>, i + 1) # -1

\* the conditions under which the link branch appends and continues
LinkAt(text, i) ==
    /\ At(text, i) = "["
    /\ LET endBracket == Find(text, <<"]">>, i + 1)
       IN  /\ endBracket # -1
           /\ endBracket + 1 < Len(text)
           /\ At(text, endBracket + 1) = "("
           /\ Find(text, <<")">>, endBracket + 2) # -1

\* the inner while loop of the plain run: first index >= i holding a marker
PlainEnd(text, i) ==
    LET stops == {k \in i..(Len(text) - 1) : IsMarker(At(text, k))}
    IN  IF stops = {} THEN Len(text) ELSE SetMin(stops)

\* One iteration of the while loop at position i < len(text): the segments it
\* appends, the new position, and the branch taken.
TokIter(text, i) ==
    IF BoldAt(text, i) THEN
        LET end == Find(text, BoldMark, i + 2)
        IN  [segs |-> <<[text |-> BoldText(text, i, end), type |-> "bold"]>>,
             i |-> end + 2, kind |-> "bold"]
    ELSE IF ItalicAt(text, i) THEN
        LET end == Find(text, <<"*">>, i + 1)
        IN  [segs |-> <<[text |-> ItalicText(text, i, end), type |-> "italic"]>>,
             i |-> end + 1, kind |-> "italic"]
    ELSE IF CodeAt(text, i) THEN
        LET end == Find(text, <<Backtick>>, i + 1)
        IN  [segs |-> <<[text |-> CodeText(text, i, end), type |-> "code"]>>,
             i |-> end + 1, kind |-> "code"]
    ELSE IF LinkAt(text, i) THEN
        LET endBracket == Find(text, <<"]">>, i + 1)
            endParen == Find(text, <<")">>, endBracket + 2)
        IN  [segs |-> <<[text |-> LinkText(text, i, endBracket), type |-> "normal"]>>,
             i |-> endParen + 1, kind |-> "link"]
    ELSE
        LET j == PlainEnd(text, i)
        IN  [segs |-> IF i < j
                      THEN <<[text |-> Slice(text, i, j), type |-> "normal"]>>
                      ELSE <<>>,
             i |-> j, kind |-> "plain"]

\* segments = [], i = 0 on entry, for any line of the bounded alphabet
TokInit ==
    /\ tText \in SeqsUpTo(TokAlphabet, TokMaxLen) \cup TokLineSamples
    /\ tI = 0
    /\ tSegs = <<>>
    /\ tSpans = <<>>
    /\ tIters = 0
    /\ tPc = "scan"
    /\ tRuns = <<>>

\* while i < len(text): one iteration.  The history counter stops the model
\* once the loop has run more often than the line has characters.
TokStep ==
    /\ tPc = "scan"
    /\ tI < Len(tText)
    /\ tIters <= Len(tText)
    /\ LET r == TokIter(tText, tI)
       IN  /\ tSegs' = tSegs \o r.segs
           /\ tI' = r.i
           /\ tSpans' = Append(tSpans, [kind |-> r.kind, from |-> tI, to |-> r.i])
    /\ tIters' = tIters + 1
    /\ UNCHANGED <<tText, tPc, tRuns>>
    /\ UNCHANGED notTok

\* the loop condition fails: return segments
TokReturn ==
    /\ tPc = "scan"
    /\ tI >= Len(tText)
    /\ tPc' = "done"
    /\ UNCHANGED <<tText, tI, tSegs, tSpans, tIters, tRuns>>
    /\ UNCHANGED notTok

\* self.CHAR_PR_NORMAL, self.CHAR_PR_BOLD, self.CHAR_PR_ITALIC
CHAR_PR_NORMAL == "0"
CHAR_PR_BOLD == "100"
CHAR_PR_ITALIC == "101"

\* the character property chosen for a format type
CharPrOf(type) ==
    IF type = "bold" THEN CHAR_PR_BOLD
    ELSE IF type = "italic" THEN CHAR_PR_ITALIC
    ELSE CHAR_PR_NORMAL

\* the for loop without `if not segment_text: continue`
RunsOfKeepEmpty(segs) ==
    [k \in 1..Len(segs) |->
        [text |-> segs[k].text, charPr |-> CharPrOf(segs[k].type)]]

\* the for loop of _create_formatted_text_runs: one text run per segment
\* whose text is not empty
RECURSIVE RunsOf(_)
RunsOf(segs) ==
    IF segs = <<>> THEN <<>>
    ELSE (IF Head(segs).text = <<>> THEN <<>>
          ELSE <<[text |-> Head(segs).text,
                  charPr |-> CharPrOf(Head(segs).type)]>>) \o RunsOf(Tail(segs))

\* _create_formatted_text_runs(run, text) after the tokenizer has returned
TokCreateRuns ==
    /\ tPc = "done"
    /\ tRuns' = RunsOf(tSegs)
    /\ tPc' = "runs"
    /\ UNCHANGED <<tText, tI, tSegs, tSpans, tIters>>
    /\ UNCHANGED notTok

InitTok ==
    TokInit /\ ParseOff /\ FmtOff /\ TblOff /\ MergeOff /\ BatchOff /\ PopOff /\ ProcOff
NextTok == TokStep \/ TokReturn \/ TokCreateRuns
SpecTok == InitTok /\ [][NextTok]_vars

----------------------------------------------------------------------------
(* Claims about the inline tokenizer *)

\* the texts of the emitted segments, in order
SegTexts(segs) == [k \in 1..Len(segs) |-> segs[k].text]

\* C2: the tokenizer terminates on every finite line: every iteration of the
\* scan loop strictly advances the position index i (so the loop runs at most
\* len(text) times), also at a '*', a backtick or a '[' that opens no span.
C2_IndexAdvances == [][tIters' # tIters => tI' > tI]_vars

\* a line that contains '**' with no later closing '**', the rest of the line
\* being plain characters (the shape of "**unterminated")
UnterminatedBold(text) ==
    LET open == Find(text, BoldMark, 0)
    IN  /\ open # -1
        /\ Find(text, BoldMark, open + 2) = -1
        /\ \A k \in 0..(Len(text) - 1) :
              k \notin {open, open + 1} => ~IsMarker(At(text, k))

\* some Normal segment holds the literal '**'
BoldMarkInNormal(segs) ==
    \E k \in 1..Len(segs) :
        segs[k].type = "normal" /\ Contains(segs[k].text, BoldMark)

\* C3: on a line with '**' and no later closing '**' the tokenizer returns
\* (an iteration consumes at least one character, so it has returned once
\* more iterations than characters were run), the '**' is inside a Normal
\* segment and the segment texts concatenate to the input line.
C3_UnterminatedBoldIsNormal ==
    UnterminatedBold(tText) =>
        /\ tIters <= Len(tText)
        /\ tPc = "done" =>
              BoldMarkInNormal(tSegs) /\ Concat(SegTexts(tSegs)) = tText

\* the part of a consumed source range that is visible text: the range minus
\* the delimiters of the span it holds
SpanVisible(text, sp) ==
    CASE sp.kind = "bold"   -> Slice(text, sp.from + 2, sp.to - 2)
      [] sp.kind = "italic" -> Slice(text, sp.from + 1, sp.to - 1)
      [] sp.kind = "code"   -> Slice(text, sp.from + 1, sp.to - 1)
      [] sp.kind = "link"   ->
            Slice(text, sp.from + 1, Find(text, <<"]">>, sp.from + 1))
      [] OTHER              -> Slice(text, sp.from, sp.to)

\* what SpanVisible leaves out of the range is exactly the span's delimiters
SpanDelimited(text, sp) ==
    CASE sp.kind = "bold"   ->
            /\ sp.to - sp.from >= 4
            /\ Slice(text, sp.from, sp.from + 2) = BoldMark
            /\ Slice(text, sp.to - 2, sp.to) = BoldMark
      [] sp.kind = "italic" ->
            /\ sp.to - sp.from >= 2
            /\ At(text, sp.from) = "*" /\ At(text, sp.to - 1) = "*"
      [] sp.kind = "code"   ->
            /\ sp.to - sp.from >= 2
            /\ At(text, sp.from) = Backtick /\ At(text, sp.to - 1) = Backtick
      [] sp.kind = "link"   ->
            LET b == Find(text, <<"]">>, sp.from + 1)
            IN  /\ At(text, sp.from) = "["
                /\ b # -1 /\ b + 2 < sp.to
                /\ At(text, b + 1) = "(" /\ At(text, sp.to - 1) = ")"
      [] OTHER              ->
            /\ sp.from < sp.to
            /\ \A k \in sp.from..(sp.to - 1) : ~IsMarker(At(text, k))

\* the consumed ranges follow each other and cover the line from 0 to len
SpansTile(text, spans) ==
    /\ spans = <<>> => text = <<>>
    /\ spans # <<>> => spans[1].from = 0 /\ spans[Len(spans)].to = Len(text)
    /\ \A k \in 1..(Len(spans) - 1) : spans[k].to = spans[k + 1].from

\* C7: when the tokenizer returns, the segment texts concatenate to the input
\* line with exactly the delimiters of the recognised bold/italic/code spans
\* and the '[' and '](url)' of the recognised links removed: nothing else is
\* dropped, duplicated or reordered.
C7_SegmentsLossless ==
    tPc = "done" =>
        /\ SpansTile(tText, tSpans)
        /\ \A k \in 1..Len(tSpans) : SpanDelimited(tText, tSpans[k])
        /\ Concat(SegTexts(tSegs)) =
              Concat([k \in 1..Len(tSpans) |-> SpanVisible(tText, tSpans[k])])

\* the tokenizer returned on a line holding a plain run and a non-empty
\* bold, italic or code span
C7_Witness ==
    /\ tPc = "done"
    /\ \E k \in 1..Len(tSpans) : tSpans[k].kind = "plain"
    /\ \E k \in 1..Len(tSegs) :
          tSegs[k].type \in {"bold", "italic", "code"} /\ tSegs[k].text # <<>>

\* text free of marker characters
MarkerFree(text) == \A k \in 1..Len(text) : ~IsMarker(text[k])

\* the delimiter a span opens with at text[i], or <<>> where no bold, italic
\* or code span opens
OpeningMark(text, i) ==
    IF Slice(text, i, i + 2) = BoldMark THEN BoldMark
    ELSE IF At(text, i) = "*" THEN <<"*">>
    ELSE IF At(text, i) = Backtick THEN <<Backtick>>
    ELSE <<>>

\* the style a delimiter stands for
StyleOf(mark) ==
    IF mark = BoldMark THEN "bold"
    ELSE IF mark = <<"*">> THEN "italic"
    ELSE "code"

\* Reading text from index i as a sequence of plain runs free of marker
\* characters and of **bold**, *italic* and `code` spans with non-empty,
\* marker-free content, no two spans adjacent (afterSpan: a span ended at i):
\* whether the rest of the line has that shape, and the segments it denotes.
RECURSIVE Shape(_, _, _)
Shape(text, i, afterSpan) ==
    IF i >= Len(text) THEN [ok |-> TRUE, segs |-> <<>>]
    ELSE IF ~IsMarker(At(text, i)) THEN
        LET marks == {k \in i..(Len(text) - 1) : IsMarker(At(text, k))}
            j == IF marks = {} THEN Len(text) ELSE SetMin(marks)
            rest == Shape(text, j, FALSE)
        IN  [ok |-> rest.ok,
             segs |-> <<[text |-> Slice(text, i, j), type |-> "normal"]>>
                          \o rest.segs]
    ELSE
        LET mark == OpeningMark(text, i)
            from == i + Len(mark)
            close == Find(text, mark, from)
            inner == Slice(text, from, close)
        IN  IF afterSpan \/ mark = <<>> \/ close = -1
               \/ inner = <<>> \/ ~MarkerFree(inner)
            THEN [ok |-> FALSE, segs |-> <<>>]
            ELSE LET rest == Shape(text, close + Len(mark), TRUE)
                 IN  [ok |-> rest.ok,
                      segs |-> <<[text |-> inner, type |-> StyleOf(mark)]>>
                                   \o rest.segs]

\* C12: on a line made of well-formed, non-nested **bold**, *italic* and
\* `code` spans separated by plain text free of marker characters the
\* tokenizer returns, with exactly one segment per span and one per plain
\* run, in source order, tagged bold, italic, code and normal, the delimiters
\* removed.
C12_SpansInOrder ==
    Shape(tText, 0, FALSE).ok =>
        /\ tIters <= Len(tText)
        /\ tPc \in {"done", "runs"} => tSegs = Shape(tText, 0, FALSE).segs

\* the tokenizer returned on a line of that shape holding a bold, an italic
\* and a code span with plain text between them
C12_Witness ==
    /\ tPc = "done"
    /\ Shape(tText, 0, FALSE).ok
    /\ \A ty \in {"bold", "italic", "code"} :
          \E k \in 1..Len(tSegs) : tSegs[k].type = ty /\ tSegs[k].text # <<>>
    /\ \E j, k \in 1..Len(tSegs) :
          j # k /\ tSegs[j].type = "normal" /\ tSegs[k].type = "normal"

\* the line holds a complete [text](url) shape that opens at index i, with
\* its ']' at index j and its ')' at index k
LinkShape(text, i, j, k) ==
    /\ 0 <= i /\ i < j /\ j + 1 < k /\ k < Len(text)
    /\ At(text, i) = "[" /\ At(text, j) = "]"
    /\ At(text, j + 1) = "(" /\ At(text, k) = ")"
    /\ \A m \in (i + 1)..(j - 1) : At(text, m) # "]"
    /\ \A m \in (j + 2)..(k - 1) : At(text, m) # ")"

\* C13: an iteration that starts at a complete [text](url) shape appends the
\* single segment (bracket text, link) and moves the position past the
\* closing ')', so no character of the URL gets into a segment.
C13_LinkSegment ==
    [][\A j, k \in 0..(Len(tText) - 1) :
          tIters' # tIters /\ LinkShape(tText, tI, j, k) =>
              /\ tSegs' = Append(tSegs, [text |-> Slice(tText, tI + 1, j),
                                         type |-> "link"])
              /\ tI' = k + 1]_vars

\* C14 as stated: the list the tokenizer returns holds no segment whose text
\* is empty.
C14_NoEmptySegment ==
    tPc \in {"done", "runs"} => \A k \in 1..Len(tSegs) : tSegs[k].text # <<>>

\* C14 as amended: the text runs made from the returned segments are, in
\* order, the segments whose text is not empty, so no text run is empty.
C14_NoEmptyRun ==
    tPc = "runs" =>
        /\ \A k \in 1..Len(tRuns) : tRuns[k].text # <<>>
        /\ [k \in 1..Len(tRuns) |-> tRuns[k].text] =
              SelectSeq(SegTexts(tSegs), LAMBDA x : x # <<>>)

\* text runs were made from returned segments of which one is empty and one
\* is not
C14_Witness ==
    /\ tPc = "runs"
    /\ \E k \in 1..Len(tSegs) : tSegs[k].text = <<>>
    /\ tRuns # <<>>

----------------------------------------------------------------------------
(* MarkdownToHWPXConverter._parse_markdown_blocks *)

ParseMaxLines == 3

\* The lines a document of the model is made of: blank lines, plain text,
\* well-formed and malformed headings, list items and table rows, and lines on
\* which two block patterns meet.
ParseLineSamples ==
    { <<>>,
      <<" ">>,
      <<"a">>,
      <<" ", "a", " ">>,
      <<"#", "#", "#", "#", "#", "#", " ", "a", " ">>,
      <<"#", "#", "#", "#", "#", "#", "#", " ", "a">>,
      <<"#", " ">>,
      <<"#", " ", "a", "|">>,
      <<"#", "a", "|", "b">>,
      <<"-", " ">>,
      <<"+", "\t", "a", "|", "b", " ">>,
      <<"2", "3", ".", " ", " ", "b", " ">>,
      <<"|", "a", "|", " ", "b", " ", "|">>,
      <<"|", "-", "|">>,
      <<"|">>,
      <<"a", "|", "b">> }

\* lines[j]
LineAt(lines, j) == lines[j + 1]

\* len(line) - len(line.lstrip('#')): the length of the leading run of '#'
HashRun(line) ==
    LET others == {k \in 1..Len(line) : line[k] # "#"}
    IN  IF others = {} THEN Len(line) ELSE SetMin(others) - 1

MaxHeadingLevel == 6

\* level <= 7: the bound is off by one
LevelAllowedSeven(level) == level <= MaxHeadingLevel + 1

\* level <= 6
LevelAllowed(level) == level <= MaxHeadingLevel

\* line.startswith('#') and level <= 6 and line[level:level+1] == ' '
HeadingLine(line) ==
    /\ Len(line) >= 1 /\ line[1] = "#"
    /\ LevelAllowed(HashRun(line))
    /\ Slice(line, HashRun(line), HashRun(line) + 1) = <<" ">>

\* re.match(r'^[-*+]\s', line)
UnorderedLine(line) ==
    Len(line) >= 2 /\ line[1] \in {"-", "*", "+"} /\ IsSpace(line[2])

\* regex \d
IsDigit(c) == c \in {"0", "1", "2", "3", "4", "5", "6", "7", "8", "9"}

\* the length of the leading run of digits
DigitRun(line) ==
    LET others == {k \in 1..Len(line) : ~IsDigit(line[k])}
    IN  IF others = {} THEN Len(line) ELSE SetMin(others) - 1

\* re.match(r'^\d+\.\s', line)
OrderedLine(line) ==
    LET d == DigitRun(line)
    IN  d >= 1 /\ Len(line) >= d + 2 /\ line[d + 1] = "." /\ IsSpace(line[d + 2])

\* '|' in line
TableLine(line) == Contains(line, <<"|">>)

\* re.match(r'^\s*\|[\s\-|]*\|\s*$', line): the first and the last non-blank
\* characters are two distinct '|' and every character is '|', '-' or blank
SeparatorRow(line) ==
    LET t == Strip(line)
    IN  /\ Len(t) >= 2 /\ t[1] = "|" /\ t[Len(t)] = "|"
        /\ \A k \in 1..Len(line) : line[k] \in {"|", "-"} \/ IsSpace(line[k])

\* [cell.strip() for cell in line.split('|')[1:]]: the last segment is kept
RowCellsKeepLast(line) ==
    LET parts == Split(line, "|")
    IN  [k \in 1..(Len(parts) - 1) |-> Strip(parts[k + 1])]

\* [cell.strip() for cell in line.split('|')[1:-1]]
RowCells(line) ==
    LET parts == Split(line, "|")
    IN  [k \in 1..(IF Len(parts) >= 2 THEN Len(parts) - 2 ELSE 0) |->
            Strip(parts[k + 1])]

\* _is_block_start(line)
IsBlockStart(line) ==
    \/ (Len(line) >= 1 /\ line[1] = "#")
    \/ UnorderedLine(line)
    \/ OrderedLine(line)
    \/ TableLine(line)

\* the cascade with the table test moved before the list tests
BranchOfTableFirst(line) ==
    IF line = <<>> THEN "blank"
    ELSE IF HeadingLine(line) THEN "heading"
    ELSE IF TableLine(line) THEN "table"
    ELSE IF UnorderedLine(line) THEN "unordered_list"
    ELSE IF OrderedLine(line) THEN "ordered_list"
    ELSE "paragraph"

\* The cascade of tests of one outer iteration on line = lines[i].rstrip():
\* the first test that succeeds selects the branch.
BranchOf(line) ==
    IF line = <<>> THEN "blank"
    ELSE IF HeadingLine(line) THEN "heading"
    ELSE IF UnorderedLine(line) THEN "unordered_list"
    ELSE IF OrderedLine(line) THEN "ordered_list"
    ELSE IF TableLine(line) THEN "table"
    ELSE "paragraph"

\* where an inner loop `while i < len(lines) and <test>(lines[i])` started at
\* i stops, given the set of indices from i on at which the test fails
LoopEnd(lines, stops) == IF stops = {} THEN Len(lines) ELSE SetMin(stops)

\* the loop of the unordered list branch
UnorderedEnd(lines, i) ==
    LoopEnd(lines, {j \in i..(Len(lines) - 1) : ~UnorderedLine(LineAt(lines, j))})

\* the loop of the ordered list branch
OrderedEnd(lines, i) ==
    LoopEnd(lines, {j \in i..(Len(lines) - 1) : ~OrderedLine(LineAt(lines, j))})

\* lines[i][2:].strip()
UnorderedItem(line) == Strip(SliceFrom(line, 2))

\* re.sub(r'^\d+\.\s', '', lines[i])
OrderedItem(line) ==
    IF OrderedLine(line) THEN SliceFrom(line, DigitRun(line) + 2) ELSE line

\* the condition of the table loop on lines[i]
TableContinues(line) == Strip(line) # <<>> /\ TableLine(line)

\* the loop of the table branch
TableEnd(lines, i) ==
    LoopEnd(lines, {j \in i..(Len(lines) - 1) : ~TableContinues(LineAt(lines, j))})

\* the continuation loop without its test lines[i].strip()
ParagraphContinuesBlank(line) == ~IsBlockStart(line)

\* the condition of the paragraph continuation loop on lines[i]
ParagraphContinues(line) == Strip(line) # <<>> /\ ~IsBlockStart(line)

\* the paragraph branch without its i += 1 before the continuation loop
ParagraphEndNoSkip(lines, i) ==
    LoopEnd(lines,
            {j \in i..(Len(lines) - 1) : ~ParagraphContinues(LineAt(lines, j))})

\* paragraph_lines = [line]; i += 1; then the continuation loop: its end
ParagraphEnd(lines, i) ==
    LoopEnd(lines,
            {j \in (i + 1)..(Len(lines) - 1) :
                ~ParagraphContinues(LineAt(lines, j))})

\* list_items of the unordered list loop over lines[a..b-1]
UnorderedItems(lines, a, b) ==
    [k \in 1..(b - a) |-> UnorderedItem(LineAt(lines, a + k - 1))]

\* list_items of the ordered list loop over lines[a..b-1]
OrderedItems(lines, a, b) ==
    [k \in 1..(b - a) |-> OrderedItem(LineAt(lines, a + k - 1))]

\* the rows of the table loop over lines[a..b-1]: separator rows are skipped
RECURSIVE RowsOf(_, _, _)
RowsOf(lines, a, b) ==
    IF a >= b THEN <<>>
    ELSE (IF SeparatorRow(LineAt(lines, a)) THEN <<>>
          ELSE <<RowCells(LineAt(lines, a))>>) \o RowsOf(lines, a + 1, b)

\* ' '.join(paragraph_lines): the first line and the continuation lines
\* lines[a+1..b-1], each right-stripped
ParagraphText(lines, a, b) ==
    Join([k \in 1..(b - a) |-> RStrip(LineAt(lines, a + k - 1))], <<" ">>)

\* blocks = [], lines = text.split('\n'), i = 0
ParseInit ==
    /\ pLines \in UNION {[1..n -> ParseLineSamples] : n \in 1..ParseMaxLines}
    /\ pI = 0
    /\ pBlocks = <<>>
    /\ pSrc = <<>>
    /\ pIters = 0
    /\ pPc = "scan"

\* the outer loop is at an iteration whose cascade selects branch b
ParseAt(b) ==
    /\ pPc = "scan"
    /\ pI < Len(pLines)
    /\ pIters <= ParseMaxLines
    /\ BranchOf(RStrip(LineAt(pLines, pI))) = b

\* the block b built from lines[pI..to-1] is appended and i becomes to
ParseEmit(b, to) ==
    /\ pBlocks' = Append(pBlocks, b)
    /\ pSrc' = Append(pSrc, [first |-> pI, last |-> to - 1])
    /\ pI' = to
    /\ pIters' = pIters + 1
    /\ UNCHANGED <<pLines, pPc>>
    /\ UNCHANGED notParse

\* if not line: i += 1; continue
ParseSkipBlank ==
    /\ ParseAt("blank")
    /\ pI' = pI + 1
    /\ pIters' = pIters + 1
    /\ UNCHANGED <<pLines, pBlocks, pSrc, pPc>>
    /\ UNCHANGED notParse

\* the heading branch
ParseHeading ==
    /\ ParseAt("heading")
    /\ LET line == RStrip(LineAt(pLines, pI))
           level == HashRun(line)
       IN  ParseEmit([type |-> "heading", level |-> level,
                      content |-> Strip(SliceFrom(line, level))], pI + 1)

\* the unordered list branch
ParseUnordered ==
    /\ ParseAt("unordered_list")
    /\ LET to == UnorderedEnd(pLines, pI)
       IN  ParseEmit([type |-> "unordered_list",
                      items |-> UnorderedItems(pLines, pI, to)], to)

\* the ordered list branch
ParseOrdered ==
    /\ ParseAt("ordered_list")
    /\ LET to == OrderedEnd(pLines, pI)
       IN  ParseEmit([type |-> "ordered_list",
                      items |-> OrderedItems(pLines, pI, to)], to)

\* the table branch without `if table_rows:`: a block is always appended
ParseTableAlways ==
    /\ ParseAt("table")
    /\ LET to == TableEnd(pLines, pI)
       IN  ParseEmit([type |-> "table", rows |-> RowsOf(pLines, pI, to)], to)

\* the table branch: a block is appended only if table_rows is not empty
ParseTable ==
    /\ ParseAt("table")
    /\ LET to == TableEnd(pLines, pI)
           rows == RowsOf(pLines, pI, to)
       IN  IF rows # <<>>
           THEN ParseEmit([type |-> "table", rows |-> rows], to)
           ELSE /\ pI' = to
                /\ pIters' = pIters + 1
                /\ UNCHANGED <<pLines, pBlocks, pSrc, pPc>>
                /\ UNCHANGED notParse

\* the paragraph branch
ParseParagraph ==
    /\ ParseAt("paragraph")
    /\ LET to == ParagraphEnd(pLines, pI)
       IN  ParseEmit([type |-> "paragraph",
                      content |-> ParagraphText(pLines, pI, to)], to)

\* the loop condition fails: return blocks
ParseReturn ==
    /\ pPc = "scan"
    /\ pI >= Len(pLines)
    /\ pPc' = "done"
    /\ UNCHANGED <<pLines, pI, pBlocks, pSrc, pIters>>
    /\ UNCHANGED notParse

InitParse ==
    ParseInit /\ TokOff /\ FmtOff /\ TblOff /\ MergeOff /\ BatchOff /\ PopOff /\ ProcOff
NextParse ==
    \/ ParseSkipBlank
    \/ ParseHeading
    \/ ParseUnordered
    \/ ParseOrdered
    \/ ParseTable
    \/ ParseParagraph
    \/ ParseReturn
SpecParse == InitParse /\ [][NextParse]_vars

----------------------------------------------------------------------------
(* Claims about the block parser *)

\* a non-blank line that matches no heading, list or table pattern
PlainLine(line) ==
    /\ Strip(line) # <<>>
    /\ ~HeadingLine(line) /\ ~UnorderedLine(line) /\ ~OrderedLine(line)
    /\ ~TableLine(line)

\* C4: the block parser terminates without raising: every iteration of the
\* outer loop consumes at least one line (the line index strictly increases),
\* and a non-blank line matching no heading/list/table pattern that the
\* iteration consumes becomes part of the Paragraph block it appends.
C4_ParserProgress ==
    [][pIters' # pIters =>
          /\ pI' > pI
          /\ pI' <= Len(pLines)
          /\ \A j \in pI..(pI' - 1) :
                PlainLine(LineAt(pLines, j)) =>
                    /\ Len(pBlocks') = Len(pBlocks) + 1
                    /\ pBlocks'[Len(pBlocks')].type = "paragraph"
                    /\ pSrc'[Len(pSrc')].first <= j
                    /\ j <= pSrc'[Len(pSrc')].last]_vars

\* the parser returned after an iteration that made a Paragraph of two lines
C4_Witness ==
    /\ pPc = "done"
    /\ \E k \in 1..Len(pBlocks) :
          pBlocks[k].type = "paragraph" /\ pSrc[k].last > pSrc[k].first

\* the first line of block k as the source holds it
FirstLine(k) == LineAt(pLines, pSrc[k].first)

\* C5: a Paragraph's text is the single-space join of its first line and all
\* immediately following non-blank lines that are not a heading line (1-6 '#'
\* then a space), a list-item line or a table line: the paragraph takes every
\* such line, so the line after it, if any, is blank or one of those.
C5_ParagraphJoin ==
    \A k \in 1..Len(pBlocks) :
        pBlocks[k].type = "paragraph" =>
            /\ pBlocks[k].content =
                  ParagraphText(pLines, pSrc[k].first, pSrc[k].last + 1)
            /\ \A j \in (pSrc[k].first + 1)..pSrc[k].last :
                  PlainLine(LineAt(pLines, j))
            /\ pSrc[k].last + 1 < Len(pLines) =>
                  ~PlainLine(LineAt(pLines, pSrc[k].last + 1))

\* the block the parser builds from lines[a..b-1] when it is of the given type
BlockFrom(type, lines, a, b) ==
    CASE type = "heading" ->
            [type |-> "heading", level |-> HashRun(LineAt(lines, a)),
             content |-> Strip(SliceFrom(RStrip(LineAt(lines, a)),
                                         HashRun(LineAt(lines, a))))]
      [] type = "unordered_list" ->
            [type |-> type, items |-> UnorderedItems(lines, a, b)]
      [] type = "ordered_list" ->
            [type |-> type, items |-> OrderedItems(lines, a, b)]
      [] type = "table" -> [type |-> type, rows |-> RowsOf(lines, a, b)]
      [] OTHER -> [type |-> type, content |-> ParagraphText(lines, a, b)]

\* C6: every block is built from one or more contiguous non-blank lines, no
\* blank line contributes to a block, no line contributes to two blocks, and
\* the blocks are in the order of their source lines.
C6_BlocksFromContiguousLines ==
    /\ Len(pSrc) = Len(pBlocks)
    /\ \A k \in 1..Len(pBlocks) :
          /\ 0 <= pSrc[k].first /\ pSrc[k].first <= pSrc[k].last
          /\ pSrc[k].last < pI /\ pI <= Len(pLines)
          /\ \A j \in pSrc[k].first..pSrc[k].last :
                Strip(LineAt(pLines, j)) # <<>>
          /\ pBlocks[k] = BlockFrom(pBlocks[k].type, pLines,
                                    pSrc[k].first, pSrc[k].last + 1)
          /\ (pBlocks[k].type = "heading" => pSrc[k].first = pSrc[k].last)
          /\ k < Len(pBlocks) => pSrc[k].last < pSrc[k + 1].first

\* the parser returned two blocks whose line ranges a blank line separates
C6_Witness ==
    /\ pPc = "done"
    /\ \E k \in 1..(Len(pBlocks) - 1) :
          /\ pSrc[k + 1].first = pSrc[k].last + 2
          /\ Strip(LineAt(pLines, pSrc[k].last + 1)) = <<>>

\* line.startswith('#')
StartsWithHash(line) == Len(line) >= 1 /\ line[1] = "#"

\* the line begins with exactly n '#' characters followed by a literal space
HashesThenSpace(line, n) ==
    /\ Len(line) > n
    /\ \A k \in 1..n : line[k] = "#"
    /\ line[n + 1] = " "

\* the heading the claim derives from a line that begins with n '#' and a space
HeadingOf(line, n) ==
    [type |-> "heading", level |-> n, content |-> Strip(SliceFrom(line, n))]

\* C8 as stated: the line a block starts at is parsed as a Heading iff it
\* begins with 1 to 6 '#' immediately followed by a space, level being the
\* length of the run and text the trimmed remainder; with 7 or more hashes or
\* no space after the run it is not a Heading and falls to Paragraph.
C8_HeadingIffHashesThenSpace ==
    \A k \in 1..Len(pBlocks) :
        LET line == FirstLine(k)
        IN  /\ \A n \in 1..6 :
                  HashesThenSpace(line, n) => pBlocks[k] = HeadingOf(line, n)
            /\ StartsWithHash(line) /\ (\A n \in 1..6 : ~HashesThenSpace(line, n))
                  => pBlocks[k].type = "paragraph"

\* C8 as amended: the line a block starts at is parsed as a Heading iff, once
\* its trailing whitespace is removed, it begins with 1 to 6 '#' immediately
\* followed by a space; then level is the length of the run and text the
\* trimmed remainder.  Otherwise a line beginning with '#' is not a Heading:
\* it starts a Table if it contains '|' and a Paragraph if it does not.
C8_HeadingIffStripped ==
    \A k \in 1..Len(pBlocks) :
        LET line == RStrip(FirstLine(k))
        IN  /\ \A n \in 1..6 :
                  HashesThenSpace(line, n) => pBlocks[k] = HeadingOf(line, n)
            /\ StartsWithHash(line) /\ (\A n \in 1..6 : ~HashesThenSpace(line, n))
                  => pBlocks[k].type =
                         IF Contains(line, <<"|">>) THEN "table" ELSE "paragraph"
            /\ pBlocks[k].type = "heading" => StartsWithHash(line)

\* the parser returned a Heading of level 6, a Paragraph made of a line of 7
\* hashes and a block made of a '#' line that has no space after the run
C8_Witness ==
    /\ pPc = "done"
    /\ \E k \in 1..Len(pBlocks) :
          pBlocks[k].type = "heading" /\ pBlocks[k].level = 6
    /\ \E k \in 1..Len(pBlocks) :
          pBlocks[k].type = "paragraph" /\ HashRun(FirstLine(k)) = 7
    /\ \E k \in 1..Len(pBlocks) :
          pBlocks[k].type # "heading" /\ HashRun(FirstLine(k)) = 1

UnorderedRun(lines, a, b) ==
    /\ a <= b
    /\ \A j \in a..b : UnorderedLine(LineAt(lines, j))
    /\ a = 0 \/ ~UnorderedLine(LineAt(lines, a - 1))
    /\ b = Len(lines) - 1 \/ ~UnorderedLine(LineAt(lines, b + 1))

\* lines[a..b] is a maximal run of consecutive lines matching '^\d+\.\s'
OrderedRun(lines, a, b) ==
    /\ a <= b
    /\ \A j \in a..b : OrderedLine(LineAt(lines, j))
    /\ a = 0 \/ ~OrderedLine(LineAt(lines, a - 1))
    /\ b = Len(lines) - 1 \/ ~OrderedLine(LineAt(lines, b + 1))

\* the returned list holds the block blk, built from exactly lines[a..b]
HasBlock(blk, a, b) ==
    \E k \in 1..Len(pBlocks) :
        pSrc[k] = [first |-> a, last |-> b] /\ pBlocks[k] = blk

\* C10: a maximal run of k consecutive lines matching the unordered marker
\* pattern yields exactly one UnorderedList block with k items in source
\* order, each the trimmed remainder after the marker; a maximal run of lines
\* matching digits, '.', whitespace yields exactly one OrderedList block whose
\* items have the leading "N. " removed.
C10_ListRuns ==
    pPc = "done" =>
        \A a, b \in 0..(Len(pLines) - 1) :
            /\ UnorderedRun(pLines, a, b) =>
                  HasBlock([type |-> "unordered_list",
                            items |-> UnorderedItems(pLines, a, b + 1)], a, b)
            /\ OrderedRun(pLines, a, b) =>
                  HasBlock([type |-> "ordered_list",
                            items |-> OrderedItems(pLines, a, b + 1)], a, b)

\* a non-blank line that contains '|'
PipeLine(line) == Strip(line) # <<>> /\ \E k \in 1..Len(line) : line[k] = "|"

\* lines[a..b] is a maximal run of consecutive non-blank lines containing '|'
\* whose first line is claimed neither by the heading nor by a list pattern
TableRun(lines, a, b) ==
    /\ a <= b
    /\ \A j \in a..b : PipeLine(LineAt(lines, j))
    /\ a = 0 \/ ~PipeLine(LineAt(lines, a - 1))
    /\ b = Len(lines) - 1 \/ ~PipeLine(LineAt(lines, b + 1))
    /\ \A n \in 1..6 : ~HashesThenSpace(LineAt(lines, a), n)
    /\ ~UnorderedLine(LineAt(lines, a)) /\ ~OrderedLine(LineAt(lines, a))

\* a line made only of '|', '-' and whitespace
DashRow(line) == \A k \in 1..Len(line) : line[k] \in {"|", "-"} \/ IsSpace(line[k])

\* a line made only of '|', '-' and whitespace whose first and last non-blank
\* characters are two different '|'
PipedDashRow(line) ==
    /\ DashRow(line)
    /\ \E j, k \in 1..Len(line) :
          /\ j < k /\ line[j] = "|" /\ line[k] = "|"
          /\ \A m \in 1..Len(line) : (m < j \/ m > k) => IsSpace(line[m])

\* the positions of the '|' characters of a line, in increasing order
RECURSIVE PipesFrom(_, _)
PipesFrom(line, k) ==
    IF k > Len(line) THEN <<>>
    ELSE (IF line[k] = "|" THEN <<k>> ELSE <<>>) \o PipesFrom(line, k + 1)

\* the trimmed texts between consecutive '|' of a line: the split segments
\* without the first and the last
CellsBetweenPipes(line) ==
    LET at == PipesFrom(line, 1)
    IN  [k \in 1..(Len(at) - 1) |->
            Strip(SubSeq(line, at[k] + 1, at[k + 1] - 1))]

\* lines[a..b], in order
LinesOf(lines, a, b) == [k \in 1..(b - a + 1) |-> LineAt(lines, a + k - 1)]

\* no block was built from any line of lines[a..b]
NoBlockIn(a, b) ==
    \A k \in 1..Len(pSrc) : pSrc[k].last < a \/ pSrc[k].first > b

\* C11 as stated: a maximal run of consecutive non-blank lines containing '|'
\* that starts at a line not claimed by heading or list yields one Table block
\* whose rows are, in source order, the cells between the pipes of the lines
\* of the run that are not made only of '|', '-' and whitespace.
C11_TableRows ==
    pPc = "done" =>
        \A a, b \in 0..(Len(pLines) - 1) :
            TableRun(pLines, a, b) =>
                LET kept == SelectSeq(LinesOf(pLines, a, b),
                                      LAMBDA l : ~DashRow(l))
                IN  HasBlock([type |-> "table",
                              rows |-> [k \in 1..Len(kept) |->
                                           CellsBetweenPipes(kept[k])]], a, b)

\* C11 as amended: a separator row is a line made only of '|', '-' and
\* whitespace that begins and ends (blanks aside) with two different '|'.
\* A run with at least one line that is no separator row yields one Table
\* block built from exactly the run, whose rows are, in source order, the
\* cells between the pipes of those lines; a run of separator rows only
\* yields no block.
C11_TableRowsPiped ==
    pPc = "done" =>
        \A a, b \in 0..(Len(pLines) - 1) :
            TableRun(pLines, a, b) =>
                LET kept == SelectSeq(LinesOf(pLines, a, b),
                                      LAMBDA l : ~PipedDashRow(l))
                IN  IF kept # <<>>
                    THEN HasBlock([type |-> "table",
                                   rows |-> [k \in 1..Len(kept) |->
                                                CellsBetweenPipes(kept[k])]],
                                  a, b)
                    ELSE NoBlockIn(a, b)

\* the parser returned a Table of two or more rows built from a run that also
\* holds a separator row, each row with two non-empty cells
C11_Witness ==
    /\ pPc = "done"
    /\ \E k \in 1..Len(pBlocks) :
          /\ pBlocks[k].type = "table"
          /\ Len(pBlocks[k].rows) >= 2
          /\ pSrc[k].last - pSrc[k].first + 1 > Len(pBlocks[k].rows)
          /\ \A r \in 1..Len(pBlocks[k].rows) :
                pBlocks[k].rows[r] = <<<<"a">>, <<"b">>>>

\* C30: every block returned by the parser is non-degenerate: a Heading has
\* a level in 1..6 and a non-empty text, a Paragraph has a non-empty text,
\* every list block has at least one item, and every Table block has at
\* least one row.
C30_BlocksNonDegenerate ==
    \A k \in 1..Len(pBlocks) :
        LET blk == pBlocks[k]
        IN  /\ blk.type = "heading" =>
                (blk.level \in 1..6 /\ blk.content # <<>>)
            /\ blk.type = "paragraph" => blk.content # <<>>
            /\ blk.type \in {"unordered_list", "ordered_list"} =>
                Len(blk.items) >= 1
            /\ blk.type = "table" => Len(blk.rows) >= 1

\* the parser returned a heading, a list and a table
C30_Witness ==
    /\ pPc = "done"
    /\ Len(pBlocks) = 3
    /\ pBlocks[1].type = "heading"
    /\ pBlocks[2].type \in {"unordered_list", "ordered_list"}
    /\ pBlocks[3].type = "table"

\* the characters of a line that are neither '|' nor whitespace, in order
RECURSIVE Ink(_)
Ink(line) ==
    IF line = <<>> THEN <<>>
    ELSE (IF Head(line) = "|" \/ IsSpace(Head(line)) THEN <<>>
          ELSE <<Head(line)>>) \o Ink(Tail(line))

\* the characters of the cells of a row that are not whitespace, in order
RECURSIVE RowInk(_)
RowInk(row) == IF row = <<>> THEN <<>> ELSE Ink(Head(row)) \o RowInk(Tail(row))

\* the number of lines among lines[a..j] that the parser keeps as rows
RowIndex(lines, a, j) ==
    Cardinality({m \in a..j : ~SeparatorRow(LineAt(lines, m))})

\* C25: the block parser loses no text of a line containing '|': every line
\* of a table run that is not made only of '|', '-' and whitespace yields a
\* row with at least one cell, and all of its non-pipe text is present in
\* that row's cells.
C25_TableKeepsText ==
    pPc = "done" =>
        \A k \in 1..Len(pBlocks) :
            pBlocks[k].type = "table" =>
                \A j \in pSrc[k].first..pSrc[k].last :
                    LET line == LineAt(pLines, j)
                        r == RowIndex(pLines, pSrc[k].first, j)
                    IN  ~DashRow(line) =>
                            /\ r \in 1..Len(pBlocks[k].rows)
                            /\ Len(pBlocks[k].rows[r]) >= 1
                            /\ RowInk(pBlocks[k].rows[r]) = Ink(line)

----------------------------------------------------------------------------
(* MarkdownFormatter.format_text *)

FmtMaxLen == 5
FmtAlphabet == {"a", " ", "\t", "\n", "|"}

\* Longer texts given to format_text besides every text of the bounded
\* alphabet: flat text of two and three tab-delimited rows, with rows of
\* different widths, with text after the rows, and a paragraph of three lines
FmtTextSamples ==
    { <<"a", "\t", "b", "\n", "c", "\t", "d", "\n", "e", "\t", "f">>,
      <<"a", "\t", "b", "\n", "c", "\t", "d", "\t", "e">>,
      <<"a", "\t", " ", "b", " ", "\t", "c", "\n", "d", "\t", "e">>,
      <<"a", "\t", "b", "\n", "c", "\t", "d", "\n", "\n", "e">>,
      <<"a", "\n", "b", "\n", "c", " ", "\n", "\n">> }

\* the characters of the class [ \t]
IsBlank(c) == c \in {" ", "\t"}

\* the length of the run of character c that starts at text[k]
RunLength(text, k, c) ==
    LET others == {j \in k..(Len(text) - 1) : At(text, j) # c}
    IN  (IF others = {} THEN Len(text) ELSE SetMin(others)) - k

\* re.sub of every maximal run of at least atLeast characters c by the
\* string to, scanning text from index k
RECURSIVE SubRuns(_, _, _, _, _)
SubRuns(text, k, c, atLeast, to) ==
    IF k >= Len(text) THEN <<>>
    ELSE IF At(text, k) = c
    THEN LET n == RunLength(text, k, c)
         IN  (IF n >= atLeast THEN to ELSE Slice(text, k, k + n))
                 \o SubRuns(text, k + n, c, atLeast, to)
    ELSE <<At(text, k)>> \o SubRuns(text, k + 1, c, atLeast, to)

\* re.sub(r'\n{3,}', '\n\n', formatted)
CollapseNewlines(text) == SubRuns(text, 0, "\n", 3, <<"\n", "\n">>)

\* re.sub(r' {3,}', ' ', formatted): only runs of three or more spaces
CollapseSpacesThree(text) == SubRuns(text, 0, " ", 3, <<" ">>)

\* re.sub(r' {2,}', ' ', formatted)
CollapseSpaces(text) == SubRuns(text, 0, " ", 2, <<" ">>)

\* a line without its trailing run of [ \t]
StripBlankEnd(line) ==
    LET keep == {k \in 1..Len(line) : ~IsBlank(line[k])}
    IN  IF keep = {} THEN <<>> ELSE SubSeq(line, 1, SetMax(keep))

\* re.sub(r'[ \t]+$', '', formatted, flags=re.MULTILINE)
StripLineEnds(text) ==
    LET lines == Split(text, "\n")
    IN  Join([k \in 1..Len(lines) |-> StripBlankEnd(lines[k])], <<"\n">>)

\* '| ' + ' | '.join(row) + ' |'
TableRowLine(row) == <<"|", " ">> \o Join(row, <<" ", "|", " ">>) \o <<" ", "|">>

\* len(rows[0]): the width of the header instead of the widest row
MaxColsOfHeader(rows) == Len(rows[1])

\* max(len(row) for row in rows)
MaxCols(rows) == SetMax({Len(rows[k]) : k \in 1..Len(rows)})

\* row + [''] * (max_cols - len(row)), every cell stripped
NormalizedRow(row, maxCols) ==
    [k \in 1..maxCols |-> IF k <= Len(row) THEN Strip(row[k]) ELSE <<>>]

\* _create_markdown_table(rows): header, separator, data rows, empty line
CreateMarkdownTable(rows) ==
    IF rows = <<>> THEN <<>>
    ELSE LET maxCols == MaxCols(rows)
             normalized == [k \in 1..Len(rows) |-> NormalizedRow(rows[k], maxCols)]
             header == normalized[1]
             separator == TableRowLine([k \in 1..Len(header) |-> <<"-", "-", "-">>])
         IN  <<TableRowLine(header), separator>>
                 \o [k \in 1..(Len(normalized) - 1) |-> TableRowLine(normalized[k + 1])]
                 \o << <<>> >>

\* '\t' in line and len(line.split('\t')) >= 3: one field too many is asked
CandidateRowThree(line) ==
    Contains(line, <<"\t">>) /\ Len(Split(line, "\t")) >= 3

\* '\t' in line and len(line.split('\t')) >= 2
CandidateRow(line) == Contains(line, <<"\t">>) /\ Len(Split(line, "\t")) >= 2

\* The body of the loop of _format_tables for one line, on the state
\* (in_table, table_rows, formatted_lines).
TableScan(st, line) ==
    IF Strip(line) = <<>> THEN
        [in_table |-> FALSE,
         table_rows |-> IF st.in_table THEN <<>> ELSE st.table_rows,
         formatted_lines |->
             (IF st.in_table
              THEN st.formatted_lines \o CreateMarkdownTable(st.table_rows)
              ELSE st.formatted_lines) \o <<line>>]
    ELSE IF CandidateRow(line) THEN
        [in_table |-> TRUE,
         table_rows |-> Append(IF st.in_table THEN st.table_rows ELSE <<>>,
                               Split(line, "\t")),
         formatted_lines |-> st.formatted_lines]
    ELSE
        [in_table |-> FALSE,
         table_rows |-> IF st.in_table THEN <<>> ELSE st.table_rows,
         formatted_lines |->
             (IF st.in_table
              THEN st.formatted_lines \o CreateMarkdownTable(st.table_rows)
              ELSE st.formatted_lines) \o <<line>>]

\* the state of _format_tables after the loop has run over lines[0..k-1]
RECURSIVE TableScanAll(_, _)
TableScanAll(lines, k) ==
    IF k = 0
    THEN [in_table |-> FALSE, table_rows |-> <<>>, formatted_lines |-> <<>>]
    ELSE TableScan(TableScanAll(lines, k - 1), LineAt(lines, k - 1))

\* _format_tables(text)
FormatTables(text) ==
    LET lines == Split(text, "\n")
        st == TableScanAll(lines, Len(lines))
    IN  Join(IF st.in_table /\ st.table_rows # <<>>
             THEN st.formatted_lines \o CreateMarkdownTable(st.table_rows)
             ELSE st.formatted_lines,
             <<"\n">>)

\* line.strip().startswith('|')
TableRowStart(line) == Strip(line) # <<>> /\ Strip(line)[1] = "|"

\* the look-ahead test without its table-row condition
MergesWithNextRow(lines, i) ==
    /\ i + 1 < Len(lines)
    /\ Strip(LineAt(lines, i + 1)) # <<>>

\* the look-ahead test: a next line exists, is not blank and is no table row
MergesWithNext(lines, i) ==
    /\ i + 1 < Len(lines)
    /\ Strip(LineAt(lines, i + 1)) # <<>>
    /\ ~TableRowStart(LineAt(lines, i + 1))

\* processed_lines of the line-break loop run from index i
RECURSIVE MergeLines(_, _)
MergeLines(lines, i) ==
    IF i >= Len(lines) THEN <<>>
    ELSE LET line == LineAt(lines, i)
         IN  IF TableRowStart(line) THEN <<line>> \o MergeLines(lines, i + 1)
             ELSE IF Strip(line) = <<>> THEN <<line>> \o MergeLines(lines, i + 1)
             ELSE IF MergesWithNext(lines, i)
             THEN <<line \o <<" ">> \o Strip(LineAt(lines, i + 1))>>
                      \o MergeLines(lines, i + 2)
             ELSE <<line>> \o MergeLines(lines, i + 1)

\* the block `if not self.preserve_linebreaks`
HandleLineBreaks(text) == Join(MergeLines(Split(text, "\n"), 0), <<"\n">>)

\* formatted + '\n': the text is not trimmed first
EndWithNewlineNoTrim(text) == text \o <<"\n">>

\* formatted.rstrip() + '\n'
EndWithNewline(text) == RStrip(text) \o <<"\n">>

\* format_text(text) of a formatter built with the two flags
FormatText(text, formatTables, preserveLinebreaks) ==
    IF text = <<>> THEN <<>>
    ELSE LET cleaned == StripLineEnds(CollapseNewlines(text))
             tabled == IF formatTables THEN FormatTables(cleaned) ELSE cleaned
             broken == IF ~preserveLinebreaks THEN HandleLineBreaks(tabled)
                       ELSE tabled
         IN  EndWithNewline(CollapseSpaces(broken))

\* a formatter with any flags is given any text of the bounded alphabet
FmtInit ==
    /\ fText \in SeqsUpTo(FmtAlphabet, FmtMaxLen) \cup FmtTextSamples
    /\ fTables \in BOOLEAN
    /\ fPreserve \in BOOLEAN
    /\ fOut = <<>>
    /\ fOut2 = <<>>
    /\ fPc = "start"

\* formatter.format_text(text)
FmtFormat ==
    /\ fPc = "start"
    /\ fOut' = FormatText(fText, fTables, fPreserve)
    /\ fPc' = "once"
    /\ UNCHANGED <<fText, fTables, fPreserve, fOut2>>
    /\ UNCHANGED notFmt

\* the same formatter is given its own output
FmtFormatAgain ==
    /\ fPc = "once"
    /\ fOut2' = FormatText(fOut, fTables, fPreserve)
    /\ fPc' = "twice"
    /\ UNCHANGED <<fText, fTables, fPreserve, fOut>>
    /\ UNCHANGED notFmt

InitFmt ==
    FmtInit /\ TokOff /\ ParseOff /\ TblOff /\ MergeOff /\ BatchOff /\ PopOff /\ ProcOff
NextFmt == FmtFormat \/ FmtFormatAgain
SpecFmt == InitFmt /\ [][NextFmt]_vars

----------------------------------------------------------------------------
(* MarkdownFormatter._format_tables, line by line *)

TblMaxLines == 4

\* The lines of a text that format_text has cleaned and hands to
\* _format_tables: no line ends with a space or a tab.  Blank lines, plain
\* text, and tab-delimited rows of two and three fields, with empty fields
\* and with fields to trim.
TblLineSamples ==
    { <<>>,
      <<"a">>,
      <<"a", "\t", "b">>,
      <<" ", "a", " ", "\t", " ", "b">>,
      <<"a", "\t", "b", "\t", "c">>,
      <<"\t", "a">>,
      <<"a", "\t", "\t", "b">> }

\* the branch the loop body takes on a line
LineKind(line) ==
    IF Strip(line) = <<>> THEN "blank"
    ELSE IF CandidateRow(line) THEN "row"
    ELSE "text"

\* lines = text.split('\n') of a non-empty text, formatted_lines = [],
\* in_table = False, table_rows = []
TblInit ==
    /\ ftLines \in UNION {[1..n -> TblLineSamples] : n \in 1..TblMaxLines}
    /\ ftLines # << <<>> >>
    /\ ftK = 0
    /\ ftInTable = FALSE
    /\ ftRows = <<>>
    /\ ftOut = <<>>
    /\ ftGroups = <<>>
    /\ ftResult = <<>>
    /\ ftPc = "scan"

\* the group _create_markdown_table is called on, as the history keeps it:
\* the rows, the lines they were read from and the lines rendered
GroupAt(rows, last) ==
    [first |-> last - Len(rows) + 1, last |-> last, rows |-> rows,
     table |-> CreateMarkdownTable(rows)]

\* one iteration of the for loop, on a line of the given kind
TblIter(kind) ==
    /\ ftPc = "scan"
    /\ ftK < Len(ftLines)
    /\ LineKind(LineAt(ftLines, ftK)) = kind
    /\ LET st == TableScan([in_table |-> ftInTable, table_rows |-> ftRows,
                            formatted_lines |-> ftOut], LineAt(ftLines, ftK))
       IN  /\ ftInTable' = st.in_table
           /\ ftRows' = st.table_rows
           /\ ftOut' = st.formatted_lines
    /\ ftGroups' = IF ftInTable /\ kind # "row"
                   THEN Append(ftGroups, GroupAt(ftRows, ftK - 1))
                   ELSE ftGroups
    /\ ftK' = ftK + 1
    /\ UNCHANGED <<ftLines, ftResult, ftPc>>
    /\ UNCHANGED notTbl

\* if not line.strip(): the table, if one is open, is rendered; the line is kept
TblBlank == TblIter("blank")

\* a potential table row is appended to table_rows
TblCandidate == TblIter("row")

\* not a table line: the table, if one is open, is rendered; the line is kept
TblOther == TblIter("text")

\* after the loop the lines are joined, a table still open is not rendered
TblReturnNoFlush ==
    /\ ftPc = "scan"
    /\ ftK >= Len(ftLines)
    /\ ftResult' = Join(ftOut, <<"\n">>)
    /\ ftPc' = "done"
    /\ UNCHANGED <<ftLines, ftK, ftInTable, ftRows, ftOut, ftGroups>>
    /\ UNCHANGED notTbl

\* after the loop: a table at the end of the document is rendered, and the
\* lines are joined
TblReturn ==
    /\ ftPc = "scan"
    /\ ftK >= Len(ftLines)
    /\ LET flush == ftInTable /\ ftRows # <<>>
           out == IF flush THEN ftOut \o CreateMarkdownTable(ftRows) ELSE ftOut
       IN  /\ ftOut' = out
           /\ ftGroups' = IF flush THEN Append(ftGroups, GroupAt(ftRows, ftK - 1))
                          ELSE ftGroups
           /\ ftResult' = Join(out, <<"\n">>)
    /\ ftPc' = "done"
    /\ UNCHANGED <<ftLines, ftK, ftInTable, ftRows>>
    /\ UNCHANGED notTbl

InitTbl ==
    TblInit /\ TokOff /\ ParseOff /\ FmtOff /\ MergeOff /\ BatchOff /\ PopOff /\ ProcOff
NextTbl == TblBlank \/ TblCandidate \/ TblOther \/ TblReturn
SpecTbl == InitTbl /\ [][NextTbl]_vars

----------------------------------------------------------------------------
(* MarkdownFormatter.format_text: the line-break loop, line by line *)

MergeMaxLines == 4

\* The lines the loop is given when preserve_linebreaks is false: lines of a
\* cleaned text (none ends with a space or a tab): blank lines, text lines
\* and lines whose first visible character is '|'.
MergeLineSamples ==
    { <<>>,
      <<"a">>,
      <<"b">>,
      <<" ", "b">>,
      <<"|", "a">>,
      <<" ", "|", "a">> }

\* lines = formatted.split('\n'), processed_lines = [], i = 0
MergeInit ==
    /\ mLines \in UNION {[1..n -> MergeLineSamples] : n \in 1..MergeMaxLines}
    /\ mI = 0
    /\ mOut = <<>>
    /\ mSrc = <<>>
    /\ mPc = "scan"

\* the branch one iteration of the loop takes at index i
MergeBranch(lines, i) ==
    IF TableRowStart(LineAt(lines, i)) THEN "row"
    ELSE IF Strip(LineAt(lines, i)) = <<>> THEN "blank"
    ELSE IF MergesWithNext(lines, i) THEN "merge"
    ELSE "keep"

\* an iteration that appends out, made of the lines i..to-1, and sets i to to
MergeIter(branch, out, to) ==
    /\ mPc = "scan"
    /\ mI < Len(mLines)
    /\ MergeBranch(mLines, mI) = branch
    /\ mOut' = Append(mOut, out)
    /\ mSrc' = Append(mSrc, [first |-> mI, last |-> to - 1])
    /\ mI' = to
    /\ UNCHANGED <<mLines, mPc>>
    /\ UNCHANGED notMerge

\* a table row is kept as it is
MergeKeepRow == MergeIter("row", LineAt(mLines, mI), mI + 1)

\* an empty line is kept
MergeKeepBlank == MergeIter("blank", LineAt(mLines, mI), mI + 1)

\* the line is merged with the next line using a space; the next is skipped
MergePair ==
    /\ mI + 1 < Len(mLines)
    /\ MergeIter("merge",
                 LineAt(mLines, mI) \o <<" ">> \o Strip(LineAt(mLines, mI + 1)),
                 mI + 2)

\* the line is appended alone
MergeKeep == MergeIter("keep", LineAt(mLines, mI), mI + 1)

\* the loop condition fails
MergeReturn ==
    /\ mPc = "scan"
    /\ mI >= Len(mLines)
    /\ mPc' = "done"
    /\ UNCHANGED <<mLines, mI, mOut, mSrc>>
    /\ UNCHANGED notMerge

InitMerge ==
    MergeInit /\ TokOff /\ ParseOff /\ FmtOff /\ TblOff /\ BatchOff /\ PopOff /\ ProcOff
NextMerge ==
    \/ MergeKeepRow
    \/ MergeKeepBlank
    \/ MergePair
    \/ MergeKeep
    \/ MergeReturn
SpecMerge == InitMerge /\ [][NextMerge]_vars

----------------------------------------------------------------------------
(* BatchConverter.convert_directory *)

BatchMaxFiles == 3

\* hwpx_files = glob.glob(...): any number of files up to the bound, the
\* output path of each existing already or not; any value of overwrite
BatchInit ==
    /\ bFiles \in UNION {[1..n -> [exists : BOOLEAN]] : n \in 0..BatchMaxFiles}
    /\ bOverwrite \in BOOLEAN
    /\ bI = 0
    /\ bSuccess = 0
    /\ bOutcome = <<>>
    /\ bResult = <<>>
    /\ bWritten = {}
    /\ bExit = -1
    /\ bFailed = 0
    /\ bPc = "start"

\* if not hwpx_files: return 0, 0
BatchNoFiles ==
    /\ bPc = "start"
    /\ bFiles = <<>>
    /\ bResult' = <<0, 0>>
    /\ bPc' = "done"
    /\ UNCHANGED <<bFiles, bOverwrite, bI, bSuccess, bOutcome, bWritten, bExit,
                   bFailed>>
    /\ UNCHANGED notBatch

\* os.makedirs(output_dir), success_count = 0, the converter is created
BatchSetup ==
    /\ bPc = "start"
    /\ bFiles # <<>>
    /\ bPc' = "loop"
    /\ UNCHANGED <<bFiles, bOverwrite, bI, bSuccess, bOutcome, bResult,
                   bWritten, bExit, bFailed>>
    /\ UNCHANGED notBatch

\* os.makedirs or the constructor of the converter raises: these calls are
\* outside the try block, the exception leaves convert_directory
BatchSetupRaises ==
    /\ bPc = "start"
    /\ bFiles # <<>>
    /\ bPc' = "raised"
    /\ UNCHANGED <<bFiles, bOverwrite, bI, bSuccess, bOutcome, bResult,
                   bWritten, bExit, bFailed>>
    /\ UNCHANGED notBatch

\* the for loop is at a file
BatchAtFile == bPc = "loop" /\ bI < Len(bFiles)

\* the iteration ends with the given outcome and the given success_count,
\* having written to the output path of the file or not
BatchNext(outcome, success, wrote) ==
    /\ bOutcome' = Append(bOutcome, outcome)
    /\ bSuccess' = success
    /\ bWritten' = IF wrote THEN bWritten \cup {bI + 1} ELSE bWritten
    /\ bI' = bI + 1
    /\ UNCHANGED <<bFiles, bOverwrite, bResult, bExit, bFailed, bPc>>
    /\ UNCHANGED notBatch

\* if output_path.exists() and not overwrite: continue
BatchSkip ==
    /\ BatchAtFile
    /\ bFiles[bI + 1].exists /\ ~bOverwrite
    /\ BatchNext("skipped", bSuccess, FALSE)

\* the conversion without the test of the output path before it
BatchConvertUnguarded ==
    /\ BatchAtFile
    /\ BatchNext("converted", bSuccess + 1, TRUE)

\* the conversion writes the output file and returns: success_count += 1
BatchConvert ==
    /\ BatchAtFile
    /\ ~(bFiles[bI + 1].exists /\ ~bOverwrite)
    /\ BatchNext("converted", bSuccess + 1, TRUE)

\* the exception of the conversion is not caught and leaves the loop
BatchConvertRaisesUncaught ==
    /\ BatchAtFile
    /\ ~(bFiles[bI + 1].exists /\ ~bOverwrite)
    /\ bOutcome' = Append(bOutcome, "failed")
    /\ bPc' = "raised"
    /\ UNCHANGED <<bFiles, bOverwrite, bI, bSuccess, bResult, bWritten, bExit,
                   bFailed>>
    /\ UNCHANGED notBatch

\* the conversion raises, before or after it opened the output file: except
\* Exception prints the error, the loop goes on
BatchConvertRaises ==
    /\ BatchAtFile
    /\ ~(bFiles[bI + 1].exists /\ ~bOverwrite)
    /\ \E wrote \in BOOLEAN : BatchNext("failed", bSuccess, wrote)

\* computing the output path raises (relpath, mkdir of the subdirectory,
\* exists): the same except clause catches it, before the overwrite test
BatchPathRaises ==
    /\ BatchAtFile
    /\ BatchNext("failed", bSuccess, FALSE)

\* return success_count, len(hwpx_files)
BatchReturn ==
    /\ bPc = "loop"
    /\ bI >= Len(bFiles)
    /\ bResult' = <<bSuccess, Len(bFiles)>>
    /\ bPc' = "done"
    /\ UNCHANGED <<bFiles, bOverwrite, bI, bSuccess, bOutcome, bWritten, bExit,
                   bFailed>>
    /\ UNCHANGED notBatch

\* cli.batch_convert after convert_directory returned: the counts are
\* printed and the command exits with 1 if success_count < total_count
CliExit ==
    /\ bPc = "done"
    /\ bFailed' = bResult[2] - bResult[1]
    /\ bExit' = IF bResult[1] < bResult[2] THEN 1 ELSE 0
    /\ bPc' = "exited"
    /\ UNCHANGED <<bFiles, bOverwrite, bI, bSuccess, bOutcome, bResult,
                   bWritten>>
    /\ UNCHANGED notBatch

\* cli.batch_convert when convert_directory raised: except Exception prints
\* the error and the command exits with 1
CliExitRaised ==
    /\ bPc = "raised"
    /\ bExit' = 1
    /\ bPc' = "exited"
    /\ UNCHANGED <<bFiles, bOverwrite, bI, bSuccess, bOutcome, bResult,
                   bWritten, bFailed>>
    /\ UNCHANGED notBatch

InitBatch ==
    BatchInit /\ TokOff /\ ParseOff /\ FmtOff /\ TblOff /\ MergeOff /\ PopOff /\ ProcOff
NextBatch ==
    \/ BatchNoFiles
    \/ BatchSetup
    \/ BatchSetupRaises
    \/ BatchSkip
    \/ BatchConvert
    \/ BatchConvertRaises
    \/ BatchPathRaises
    \/ BatchReturn
    \/ CliExit
    \/ CliExitRaised
SpecBatch == InitBatch /\ [][NextBatch]_vars

---------------------------------------------------------------------------
(* MarkdownToHWPXConverter._populate_content: the section is emptied, the  *)
(* text is parsed into blocks, and every block appends its paragraphs.     *)
(* A paragraph of the section is the sequence of its text runs.            *)

PopMaxLines == 3

\* the lines markdown_text is made of
PopLineSamples ==
    { <<>>,
      <<"a">>,
      <<"a", "*">>,
      <<"*", "*", "a", "*", "*", "b">>,
      <<"#", " ", "a">>,
      <<"#", "#", " ", "b">>,
      <<"#", "#", "#", " ", "a">>,
      <<"-", " ", "a">>,
      <<"*", " ", "b">>,
      <<"7", ".", " ", "a">>,
      <<"3", ".", " ", "b">>,
      <<"|", "a", "|", "b", "|">>,
      <<"|", "-", "|">> }

\* blocks = [] ... return blocks: the blocks the outer loop appends from
\* position i on
RECURSIVE ParseBlocks(_, _)
ParseBlocks(lines, i) ==
    IF i >= Len(lines) THEN <<>>
    ELSE
        LET line == RStrip(LineAt(lines, i))
            b == BranchOf(line)
        IN  IF b = "blank" THEN ParseBlocks(lines, i + 1)
            ELSE IF b = "heading" THEN
                <<[type |-> "heading", level |-> HashRun(line),
                   content |-> Strip(SliceFrom(line, HashRun(line)))]>>
                \o ParseBlocks(lines, i + 1)
            ELSE IF b = "unordered_list" THEN
                LET to == UnorderedEnd(lines, i)
                IN  <<[type |-> "unordered_list",
                       items |-> UnorderedItems(lines, i, to)]>>
                    \o ParseBlocks(lines, to)
            ELSE IF b = "ordered_list" THEN
                LET to == OrderedEnd(lines, i)
                IN  <<[type |-> "ordered_list",
                       items |-> OrderedItems(lines, i, to)]>>
                    \o ParseBlocks(lines, to)
            ELSE IF b = "table" THEN
                LET to == TableEnd(lines, i)
                    rows == RowsOf(lines, i, to)
                IN  (IF rows # <<>> THEN <<[type |-> "table", rows |-> rows]>>
                     ELSE <<>>) \o ParseBlocks(lines, to)
            ELSE
                LET to == ParagraphEnd(lines, i)
                IN  <<[type |-> "paragraph",
                       content |-> ParagraphText(lines, i, to)]>>
                    \o ParseBlocks(lines, to)

\* segments = self._parse_inline_formatting(text): the while loop run from
\* position i on; ok is FALSE when an iteration leaves i where it was, and
\* the loop then never ends
RECURSIVE TokAll(_, _)
TokAll(text, i) ==
    IF i >= Len(text) THEN [ok |-> TRUE, segs |-> <<>>]
    ELSE
        LET r == TokIter(text, i)
        IN  IF r.i <= i THEN [ok |-> FALSE, segs |-> <<>>]
            ELSE LET rest == TokAll(text, r.i)
                 IN  [ok |-> rest.ok, segs |-> r.segs \o rest.segs]

\* self.CHAR_PR_HEADING1, self.CHAR_PR_HEADING2, self.CHAR_PR_HEADING3
CHAR_PR_HEADING1 == "103"
CHAR_PR_HEADING2 == "104"
CHAR_PR_HEADING3 == "105"

\* char_pr_id of a heading of the given level
HeadingCharPr(level) ==
    IF level = 1 THEN CHAR_PR_HEADING1
    ELSE IF level = 2 THEN CHAR_PR_HEADING2
    ELSE IF level \in {3, 4, 5, 6} THEN CHAR_PR_HEADING3
    ELSE CHAR_PR_NORMAL

\* The bullet glyph U+2022 of "• " + text.  The module is ASCII, so the
\* glyph is written "@", a character no sample line contains.
Bullet == "@"

\* the decimal digit d as a character
DigitChar(d) == <<"0", "1", "2", "3", "4", "5", "6", "7", "8", "9">>[d + 1]

\* f"{number}": the decimal numeral of a positive integer
RECURSIVE NumStr(_)
NumStr(n) ==
    IF n < 10 THEN <<DigitChar(n)>>
    ELSE NumStr(n \div 10) \o <<DigitChar(n % 10)>>

\* list_text = "• " + text
BulletText(text) == <<Bullet, " ">> \o text

\* the numeral taken from the Markdown source line instead of the position
NumberTextFromZero(number, text) == NumStr(number - 1) \o <<".", " ">> \o text

\* list_text = f"{number}. {text}"
NumberText(number, text) == NumStr(number) \o <<".", " ">> \o text

\* table_text = " | ".join(row)
TableText(row) == Join(row, <<" ", "|", " ">>)

\* a paragraph holding one text run
OneRunPara(text, charPr) == [runs |-> <<[text |-> text, charPr |-> charPr]>>]

\* _create_heading_paragraph(section, text, level): the paragraph it adds
HeadingParas(block) ==
    <<OneRunPara(block.content, HeadingCharPr(block.level))>>

\* _create_text_paragraph(section, text): the paragraph it adds once
\* _create_formatted_text_runs has returned
TextParas(block) == <<[runs |-> RunsOf(TokAll(block.content, 0).segs)]>>

\* for item in block['items']: _create_list_paragraph(section, item, True)
UnorderedParas(block) ==
    [j \in 1..Len(block.items) |->
        OneRunPara(BulletText(block.items[j]), CHAR_PR_NORMAL)]

\* for i, item in enumerate(block['items'], 1):
\*     _create_list_paragraph(section, item, bullet=False, number=i)
OrderedParas(block) ==
    [j \in 1..Len(block.items) |->
        OneRunPara(NumberText(j, block.items[j]), CHAR_PR_NORMAL)]

\* _create_table_paragraphs(section, rows): one paragraph per row
TableParas(block) ==
    [j \in 1..Len(block.rows) |->
        OneRunPara(TableText(block.rows[j]), CHAR_PR_NORMAL)]

\* the paragraph BlankFileMaker puts in the first section: it has no text
DefaultPara == [runs |-> <<>>]

\* section = hwpx_file.sectionXMLFileList().get(0) of a file fresh from
\* BlankFileMaker, and the text to convert
PopInit ==
    /\ popLines \in UNION {[1..n -> PopLineSamples] : n \in 1..PopMaxLines}
    /\ popBlocks = <<>>
    /\ popK = 0
    /\ popSec = <<DefaultPara>>
    /\ popSrc = <<>>
    /\ popPc = "start"

\* section.removeAllParas() without effect
PopStartKeepParas ==
    /\ popPc = "start"
    /\ popBlocks' = ParseBlocks(popLines, 0)
    /\ popPc' = "loop"
    /\ UNCHANGED <<popLines, popK, popSec, popSrc>>
    /\ UNCHANGED notPop

\* section.removeAllParas(); blocks = self._parse_markdown_blocks(text)
PopStart ==
    /\ popPc = "start"
    /\ popSec' = <<>>
    /\ popBlocks' = ParseBlocks(popLines, 0)
    /\ popPc' = "loop"
    /\ UNCHANGED <<popLines, popK, popSrc>>
    /\ UNCHANGED notPop

\* `for block in blocks` is at a block of the given type
PopAt(type) ==
    /\ popPc = "loop"
    /\ popK < Len(popBlocks)
    /\ popBlocks[popK + 1].type = type

\* the paragraphs of the block are added to the end of the section, in order
PopAppend(paras) ==
    /\ popSec' = popSec \o paras
    /\ popSrc' = popSrc \o [j \in 1..Len(paras) |-> [block |-> popK, item |-> j]]
    /\ popK' = popK + 1
    /\ UNCHANGED <<popLines, popBlocks, popPc>>
    /\ UNCHANGED notPop

\* block_type == 'heading'
PopHeading ==
    /\ PopAt("heading")
    /\ PopAppend(HeadingParas(popBlocks[popK + 1]))

\* block_type == 'paragraph', and the tokenizer returns
PopParagraph ==
    /\ PopAt("paragraph")
    /\ TokAll(popBlocks[popK + 1].content, 0).ok
    /\ PopAppend(TextParas(popBlocks[popK + 1]))

\* block_type == 'paragraph', and the tokenizer never returns: the
\* paragraph was added by section.addNewPara() before the tokenizer ran
PopParagraphHangs ==
    /\ PopAt("paragraph")
    /\ ~TokAll(popBlocks[popK + 1].content, 0).ok
    /\ popSec' = Append(popSec, [runs |-> <<>>])
    /\ popSrc' = Append(popSrc, [block |-> popK, item |-> 1])
    /\ popPc' = "hung"
    /\ UNCHANGED <<popLines, popBlocks, popK>>
    /\ UNCHANGED notPop

\* block_type == 'unordered_list'
PopUnordered ==
    /\ PopAt("unordered_list")
    /\ PopAppend(UnorderedParas(popBlocks[popK + 1]))

\* block_type == 'ordered_list'
PopOrdered ==
    /\ PopAt("ordered_list")
    /\ PopAppend(OrderedParas(popBlocks[popK + 1]))

\* block_type == 'table'
PopTable ==
    /\ PopAt("table")
    /\ PopAppend(TableParas(popBlocks[popK + 1]))

\* the for loop is exhausted: _populate_content returns
PopReturn ==
    /\ popPc = "loop"
    /\ popK >= Len(popBlocks)
    /\ popPc' = "done"
    /\ UNCHANGED <<popLines, popBlocks, popK, popSec, popSrc>>
    /\ UNCHANGED notPop

InitPop ==
    PopInit /\ TokOff /\ ParseOff /\ FmtOff /\ TblOff /\ MergeOff /\ BatchOff /\ ProcOff
NextPop ==
    \/ PopStart
    \/ PopHeading
    \/ PopParagraph
    \/ PopParagraphHangs
    \/ PopUnordered
    \/ PopOrdered
    \/ PopTable
    \/ PopReturn
SpecPop == InitPop /\ [][NextPop]_vars

---------------------------------------------------------------------------
(* HWPXProcessor (core.py): load_file, extract_text and is_loaded called   *)
(* in any order on one processor.  Paths are numbered from 1; the object   *)
(* the reader returns for path p is written p, and None is written 0.      *)

ProcMaxPaths == 3
ProcMaxOps == 5

\* self._hwpx_file = None
None == 0

\* what HWPXReader.fromFilepath(filepath) can do with a path that exists:
\* return the object of the file, or raise
ReaderOutcomes == {"returns", "raises"}

\* what TextExtractor.extract can do with a loaded file
ExtractorOutcomes == {"returns", "raises"}

\* return self._hwpx_file is not None
IsLoaded(file) == file # None

\* if not self._hwpx_file: the test of extract_text
NotLoaded(file) == file = None

\* a processor fresh from __init__
ProcInit ==
    /\ hwpx_file = None
    /\ procOp = "__init__" /\ procCase = "" /\ procOut = ""
    /\ procPrev = None
    /\ procEver = FALSE
    /\ procOps = 0
    /\ procPc = "on"

\* one call on the processor: what was called, what it met, how it ended
ProcCall(op, case, out) ==
    /\ procPc = "on"
    /\ procOps < ProcMaxOps
    /\ procOps' = procOps + 1
    /\ procOp' = op /\ procCase' = case /\ procOut' = out
    /\ procPrev' = hwpx_file
    /\ UNCHANGED procPc
    /\ UNCHANGED notProc

\* load_file: not os.path.exists(filepath)
ProcLoadMissing ==
    /\ ProcCall("load_file", "missing", "FileNotFoundError")
    /\ UNCHANGED <<hwpx_file, procEver>>

\* load_file with self._hwpx_file = None placed before the try statement
ProcLoadFailsClears ==
    /\ "raises" \in ReaderOutcomes
    /\ ProcCall("load_file", "reader raises", "Exception")
    /\ hwpx_file' = None
    /\ UNCHANGED procEver

\* load_file: HWPXReader.fromFilepath raises, the assignment does not happen
ProcLoadFails ==
    /\ "raises" \in ReaderOutcomes
    /\ ProcCall("load_file", "reader raises", "Exception")
    /\ UNCHANGED <<hwpx_file, procEver>>

\* load_file: self._hwpx_file = HWPXReader.fromFilepath(filepath); return self
ProcLoad ==
    /\ "returns" \in ReaderOutcomes
    /\ \E p \in 1..ProcMaxPaths :
        /\ ProcCall("load_file", "reader returns", "self")
        /\ hwpx_file' = p
        /\ procEver' = TRUE

\* extract_text: if not self._hwpx_file: raise RuntimeError
ProcExtractUnloaded ==
    /\ NotLoaded(hwpx_file)
    /\ ProcCall("extract_text", "not loaded", "RuntimeError")
    /\ UNCHANGED <<hwpx_file, procEver>>

\* extract_text: return str(extracted_text)
ProcExtract ==
    /\ ~NotLoaded(hwpx_file)
    /\ "returns" \in ExtractorOutcomes
    /\ ProcCall("extract_text", "extractor returns", "text")
    /\ UNCHANGED <<hwpx_file, procEver>>

\* extract_text: TextExtractor.extract raises
ProcExtractFails ==
    /\ ~NotLoaded(hwpx_file)
    /\ "raises" \in ExtractorOutcomes
    /\ ProcCall("extract_text", "extractor raises", "Exception")
    /\ UNCHANGED <<hwpx_file, procEver>>

\* is_loaded()
ProcIsLoaded ==
    /\ ProcCall("is_loaded", "", IF IsLoaded(hwpx_file) THEN "True" ELSE "False")
    /\ UNCHANGED <<hwpx_file, procEver>>

InitProc ==
    ProcInit /\ TokOff /\ ParseOff /\ FmtOff /\ TblOff /\ MergeOff /\ BatchOff
        /\ PopOff
NextProc ==
    \/ ProcLoadMissing
    \/ ProcLoadFails
    \/ ProcLoad
    \/ ProcExtractUnloaded
    \/ ProcExtract
    \/ ProcExtractFails
    \/ ProcIsLoaded
SpecProc == InitProc /\ [][NextProc]_vars

----------------------------------------------------------------------------
(* Claims about the formatter *)

\* the number of tab-separated fields of a line: its tabs plus one
FieldCount(line) == Cardinality({k \in 1..Len(line) : line[k] = "\t"}) + 1

\* the largest number in a non-empty set
Largest(S) == CHOOSE x \in S : \A y \in S : y <= x

\* a rendered table line: '|', then each cell between a space and ' |'
RenderedRow(cells) ==
    <<"|">> \o Concat([k \in 1..Len(cells) |-> <<" ">> \o cells[k] \o <<" ", "|">>])

\* the fields of a line, trimmed, and completed with empty cells up to n
PaddedCells(line, n) ==
    LET fields == Split(line, "\t")
    IN  [k \in 1..n |-> IF k <= Len(fields) THEN Strip(fields[k]) ELSE <<>>]

\* C15: for each group of consecutive tab-delimited candidate rows, every
\* rendered line (header, separator, body rows) has as many cells as the
\* largest field count of the group: rows are right-padded with empty cells,
\* cells are trimmed, the first row is the header, one separator row with one
\* '---' per column follows it immediately, the other rows follow in order,
\* then one empty line.
C15_TableColumns ==
    \A g \in 1..Len(ftGroups) :
        LET first == ftGroups[g].first
            last == ftGroups[g].last
            table == ftGroups[g].table
            n == Largest({FieldCount(LineAt(ftLines, j)) : j \in first..last})
        IN  /\ 0 <= first /\ first <= last /\ last < Len(ftLines)
            /\ \A j \in first..last :
                  FieldCount(LineAt(ftLines, j)) >= 2
                      /\ Strip(LineAt(ftLines, j)) # <<>>
            /\ Len(table) = (last - first + 1) + 2
            /\ table[1] = RenderedRow(PaddedCells(LineAt(ftLines, first), n))
            /\ table[2] = RenderedRow([k \in 1..n |-> <<"-", "-", "-">>])
            /\ \A r \in 1..(last - first) :
                  table[r + 2] =
                      RenderedRow(PaddedCells(LineAt(ftLines, first + r), n))
            /\ table[Len(table)] = <<>>

\* a group was rendered whose rows differ in their number of fields, the
\* header being one of the shorter rows
C15_Witness ==
    \E g \in 1..Len(ftGroups) :
        /\ ftGroups[g].last > ftGroups[g].first
        /\ \E j \in ftGroups[g].first..ftGroups[g].last :
              FieldCount(LineAt(ftLines, j)) >
                  FieldCount(LineAt(ftLines, ftGroups[g].first))

\* a tab-delimited row: two or more tab-separated fields, the first and the
\* last of which begin and end the line with a visible character
TabRow(line) ==
    /\ FieldCount(line) >= 2
    /\ ~IsSpace(line[1]) /\ ~IsSpace(line[Len(line)])

\* flat text that consists of one or more consecutive tab-delimited rows
TabRowsOnly(text) ==
    text # <<>> /\ \A k \in 1..Len(Split(text, "\n")) : TabRow(Split(text, "\n")[k])

\* no two consecutive spaces
SingleSpaced(line) ==
    \A k \in 1..(Len(line) - 1) : ~(line[k] = " " /\ line[k + 1] = " ")

\* the k+1 lines of the table rendered from k tab-delimited rows: header,
\* separator with one '---' per column, k-1 data rows
IsTableOf(out, rows) ==
    LET n == Largest({FieldCount(rows[j]) : j \in 1..Len(rows)})
    IN  /\ Len(out) = Len(rows) + 1
        /\ out[2] = RenderedRow([c \in 1..n |-> <<"-", "-", "-">>])
        /\ \A j \in 1..Len(rows) :
              LET line == out[IF j = 1 THEN 1 ELSE j + 1]
                  want == RenderedRow(PaddedCells(rows[j], n))
              IN  /\ SingleSpaced(want) => line = want
                  /\ line[1] = "|" /\ line[Len(line)] = "|"
                  /\ Cardinality({c \in 1..Len(line) : line[c] = "|"})
                         = Cardinality({c \in 1..Len(want) : want[c] = "|"})

EndsWithOneNewline(out) ==
    /\ out # <<>>
    /\ out[Len(out)] = "\n"
    /\ Len(out) >= 2 => ~IsSpace(out[Len(out) - 1])

\* C19 as stated: for every input text and flags, the output of format_text
\* ends with exactly one newline character and has no other trailing
\* whitespace before it.
C19_EndsWithOneNewline == fPc = "once" => EndsWithOneNewline(fOut)

\* C19 as amended: for every input text that is not empty, and any flags,
\* the output ends with exactly one newline and has no other trailing
\* whitespace before it; for the empty text the output is the empty text.
C19_EndsWithOneNewlineUnlessEmpty ==
    fPc = "once" =>
        IF fText = <<>> THEN fOut = <<>> ELSE EndsWithOneNewline(fOut)

\* format_text returned for a text that holds visible characters and ends
\* with more than one whitespace character, a newline among them
C19_Witness ==
    /\ fPc = "once"
    /\ Len(fText) >= 3
    /\ IsSpace(fText[Len(fText)]) /\ IsSpace(fText[Len(fText) - 1])
    /\ "\n" \in {fText[Len(fText)], fText[Len(fText) - 1]}
    /\ \E k \in 1..Len(fOut) : ~IsSpace(fOut[k])

\* the first character of the line that is not whitespace is '|'
PipeFirst(line) ==
    \E k \in 1..Len(line) :
        line[k] = "|" /\ \A j \in 1..(k - 1) : IsSpace(line[j])

\* a line that belongs to a paragraph: not blank and no table row
ProseLine(line) == Strip(line) # <<>> /\ ~PipeFirst(line)

\* lines[a..b] is a paragraph: a maximal run of consecutive prose lines
ParagraphRun(lines, a, b) ==
    /\ a <= b
    /\ \A j \in a..b : ProseLine(LineAt(lines, j))
    /\ a = 0 \/ ~ProseLine(LineAt(lines, a - 1))
    /\ b = Len(lines) - 1 \/ ~ProseLine(LineAt(lines, b + 1))

\* lines[a..b] joined by single spaces, the lines after the first trimmed
SpaceJoined(lines, a, b) ==
    LineAt(lines, a)
        \o Concat([k \in 1..(b - a) |-> <<" ">> \o Strip(LineAt(lines, a + k))])

\* C17: with preserve_linebreaks=false every paragraph (maximal run of
\* consecutive non-blank lines that are not table rows) is output as one
\* single line, its lines joined by single spaces, whatever the number of
\* lines in the run.
C17_ParagraphOneLine ==
    mPc = "done" =>
        \A a, b \in 0..(Len(mLines) - 1) :
            ParagraphRun(mLines, a, b) =>
                \E k \in 1..Len(mOut) :
                    /\ mSrc[k] = [first |-> a, last |-> b]
                    /\ mOut[k] = SpaceJoined(mLines, a, b)

\* C18: the line-merging loop never joins a table row (a line whose first
\* visible character is '|') with another line, in either direction, and
\* never joins lines across a blank line: an output line is one input line
\* unchanged or two adjacent prose lines, table rows and blank lines are
\* copied unchanged, and the output keeps the order of the input.
C18_RowsAndBlanksKept ==
    /\ Len(mSrc) = Len(mOut)
    /\ \A k \in 1..Len(mOut) :
          /\ mSrc[k].first = (IF k = 1 THEN 0 ELSE mSrc[k - 1].last + 1)
          /\ mSrc[k].last < mI /\ mI <= Len(mLines)
          /\ \/ /\ mSrc[k].last = mSrc[k].first
                /\ mOut[k] = LineAt(mLines, mSrc[k].first)
             \/ /\ mSrc[k].last = mSrc[k].first + 1
                /\ ProseLine(LineAt(mLines, mSrc[k].first))
                /\ ProseLine(LineAt(mLines, mSrc[k].last))
    /\ mPc = "done" => mOut # <<>> /\ mSrc[Len(mSrc)].last = Len(mLines) - 1

\* the loop returned after it merged two lines and kept apart a table row
\* that follows a prose line and a prose line that follows a blank line
C18_Witness ==
    /\ mPc = "done"
    /\ \E k \in 1..Len(mSrc) : mSrc[k].last > mSrc[k].first
    /\ \E j \in 1..(Len(mLines) - 1) :
          PipeFirst(LineAt(mLines, j)) /\ ProseLine(LineAt(mLines, j - 1))
    /\ \E j \in 1..(Len(mLines) - 1) :
          ProseLine(LineAt(mLines, j)) /\ Strip(LineAt(mLines, j - 1)) = <<>>

\* the number of files with the given outcome
OutcomeCount(outcome) ==
    Cardinality({k \in 1..Len(bOutcome) : bOutcome[k] = outcome})

\* C20: in convert_directory every discovered file is attempted, in order: an
\* exception raised while converting a file is caught, never leaves the call
\* and never prevents a later file from being attempted.  The result is
\* (success_count, total_count), total_count the number of discovered files
\* and success_count the number of files converted without exception, with
\* 0 <= success_count <= total_count.
C20_BatchCountsAll ==
    /\ bPc \in {"loop", "done"} => Len(bOutcome) = bI
    /\ bPc = "raised" => bOutcome = <<>>
    /\ bPc = "done" =>
          /\ Len(bOutcome) = Len(bFiles)
          /\ bResult = <<OutcomeCount("converted"), Len(bFiles)>>
          /\ 0 <= bResult[1] /\ bResult[1] <= bResult[2]

\* convert_directory returned after the conversion of a file raised and a
\* later file was converted
C20_Witness ==
    /\ bPc = "done"
    /\ \E j, k \in 1..Len(bOutcome) :
          j < k /\ bOutcome[j] = "failed" /\ bOutcome[k] = "converted"

\* text holds n or more consecutive newline characters
NewlineRun(text, n) ==
    \E k \in 0..(Len(text) - n) : \A j \in k..(k + n - 1) : At(text, j) = "\n"

\* C24: the output of format_text never contains three or more consecutive
\* newline characters, for any input and any flags.
C24_NoThreeNewlines == fPc # "start" => ~NewlineRun(fOut, 3)

\* text holds two consecutive space characters
DoubleSpace(text) ==
    \E k \in 0..(Len(text) - 2) : At(text, k) = " " /\ At(text, k + 1) = " "

\* a line of the text ends with a space or a tab: the character stands
\* before a newline or at the end of the text
TrailingBlank(text) ==
    \E k \in 0..(Len(text) - 1) :
        /\ IsBlank(At(text, k))
        /\ (k = Len(text) - 1 \/ At(text, k + 1) = "\n")

\* C29: the output of format_text never contains two consecutive space
\* characters, and no line of the output ends with a space or a tab, for any
\* input and any flags.
C29_NoDoubleSpaceNoTrailingBlank ==
    fPc # "start" => (~DoubleSpace(fOut) /\ ~TrailingBlank(fOut))

\* an input with a run of spaces inside a line and blanks at the end of a
\* line came out with single spaces and clean line ends
C29_Witness ==
    /\ fPc # "start"
    /\ DoubleSpace(fText) /\ TrailingBlank(fText)
    /\ \E k \in 1..Len(fOut) : fOut[k] = " "

\* C1: format_text is idempotent: for every text and fixed flags, formatting
\* the output of format_text again returns that output unchanged.
C1_FormatIdempotent == fPc = "twice" => fOut2 = fOut

----------------------------------------------------------------------------
(* Claims about the populator *)

\* the paragraphs, by position in the section, made for block k
ParasOf(k) == {p \in 1..Len(popSrc) : popSrc[p].block = k}

\* the block `for block in blocks` has finished with
PopDone(k) == k < popK

\* the value of a decimal numeral
RECURSIVE DecimalValue(_)
DecimalValue(ds) ==
    IF ds = <<>> THEN 0
    ELSE 10 * DecimalValue(SubSeq(ds, 1, Len(ds) - 1))
         + (CHOOSE d \in 0..9 : DigitChar(d) = ds[Len(ds)])

\* text is "<n>. <item>" with <n> the decimal numeral of n
NumberedAs(text, n, item) ==
    LET d == DigitRun(text)
    IN  /\ d >= 1
        /\ DecimalValue(Slice(text, 0, d)) = n
        /\ Slice(text, d, d + 2) = <<".", " ">>
        /\ SliceFrom(text, d + 2) = item

\* text is the bullet glyph, a space and the item
BulletedAs(text, item) ==
    /\ Len(text) >= 2
    /\ text[1] = Bullet /\ text[2] = " "
    /\ SliceFrom(text, 2) = item

\* the only text of a paragraph that has exactly one text run
OnlyText(para) == para.runs[1].text

\* C21: for an ordered list block with N items the populator appends N
\* paragraphs whose texts are "1. <item1>" ... "N. <itemN>", numbered by
\* position whatever numbers the source used; for an unordered list block
\* each item becomes its own paragraph prefixed with the bullet glyph.
C21_ListParagraphs ==
    \A k \in 0..(Len(popBlocks) - 1) :
        LET blk == popBlocks[k + 1]
        IN  (PopDone(k) /\ blk.type \in {"ordered_list", "unordered_list"}) =>
                /\ Cardinality(ParasOf(k)) = Len(blk.items)
                /\ \A p \in ParasOf(k) :
                    LET j == popSrc[p].item
                    IN  /\ j = p - SetMin(ParasOf(k)) + 1
                        /\ Len(popSec[p].runs) = 1
                        /\ IF blk.type = "ordered_list"
                           THEN NumberedAs(OnlyText(popSec[p]), j, blk.items[j])
                           ELSE BulletedAs(OnlyText(popSec[p]), blk.items[j])

\* an ordered list whose source numbers are 7 and 3 came out as 1 and 2,
\* after an unordered list of two items
C21_Witness ==
    /\ popPc = "done"
    /\ popLines = << <<"-", " ", "a">>, <<"7", ".", " ", "a">>,
                     <<"3", ".", " ", "b">> >>
    /\ Len(popSec) = 3
    /\ OnlyText(popSec[1]) = <<Bullet, " ", "a">>
    /\ OnlyText(popSec[2]) = <<"1", ".", " ", "a">>
    /\ OnlyText(popSec[3]) = <<"2", ".", " ", "b">>

\* the number of paragraphs a block stands for: one per heading, one per
\* paragraph, one per list item, one per table row
ParaCount(blk) ==
    IF blk.type \in {"ordered_list", "unordered_list"} THEN Len(blk.items)
    ELSE IF blk.type = "table" THEN Len(blk.rows)
    ELSE 1

\* paragraph p comes before paragraph q in document order
DocumentOrder(p, q) ==
    \/ popSrc[p].block < popSrc[q].block
    \/ popSrc[p].block = popSrc[q].block /\ popSrc[p].item < popSrc[q].item

\* s is a prefix of t
IsPrefix(s, t) == Len(s) <= Len(t) /\ SubSeq(t, 1, Len(s)) = s

\* the section once the default paragraph is gone: every paragraph was made
\* for a block, paragraphs stand in document order, and a finished block
\* has as many paragraphs as it stands for
InDocumentOrder ==
    popPc # "start" =>
        /\ Len(popSec) = Len(popSrc)
        /\ \A p, q \in 1..Len(popSrc) : p < q => DocumentOrder(p, q)
        /\ \A p \in 1..Len(popSrc) :
            /\ popSrc[p].block \in 0..(Len(popBlocks) - 1)
            /\ popSrc[p].item \in 1..ParaCount(popBlocks[popSrc[p].block + 1])
        /\ \A k \in 0..(Len(popBlocks) - 1) :
            LET blk == popBlocks[k + 1]
            IN  PopDone(k) =>
                    /\ Cardinality(ParasOf(k)) = ParaCount(blk)
                    /\ blk.type = "heading" =>
                        \A p \in ParasOf(k) : OnlyText(popSec[p]) = blk.content
                    /\ blk.type = "table" =>
                        \A p \in ParasOf(k) :
                            OnlyText(popSec[p]) =
                                Join(blk.rows[popSrc[p].item], <<" ", "|", " ">>)
        /\ popPc = "done" => \A k \in 0..(Len(popBlocks) - 1) : PopDone(k)

\* C22: _populate_content first removes the section's existing paragraphs
\* and then appends paragraphs strictly in block order, one per heading, one
\* per paragraph, one per list item and one per table row; when it finishes
\* the section holds exactly that many paragraphs in that order; and once
\* emptied the section is only ever appended to.
C22_AppendInDocumentOrder ==
    [][/\ InDocumentOrder'
       /\ popPc # "start" => IsPrefix(popSec, popSec')]_vars

\* a heading and a table of two rows gave three paragraphs, and the default
\* paragraph is gone
C22_Witness ==
    /\ popPc = "done"
    /\ Len(popBlocks) = 2
    /\ popBlocks[1].type = "heading"
    /\ popBlocks[2].type = "table" /\ Len(popBlocks[2].rows) = 2
    /\ Len(popSec) = 3
    /\ \A p \in 1..3 : popSec[p] # DefaultPara

----------------------------------------------------------------------------
(* Claims about the processor *)

\* C23: extract_text raises RuntimeError whenever no file has been
\* successfully loaded; load_file raises FileNotFoundError for a missing
\* path and an exception when the reader fails, and in both cases leaves
\* the loaded state as it was; after a successful load_file, is_loaded is
\* true; extract_text never changes the loaded state.
C23_ProcessorStates ==
    /\ (procOp = "extract_text" /\ ~procEver) => procOut = "RuntimeError"
    /\ (procOp = "load_file" /\ procCase = "missing") =>
            (procOut = "FileNotFoundError" /\ hwpx_file = procPrev)
    /\ (procOp = "load_file" /\ procCase = "reader raises") =>
            (procOut = "Exception" /\ hwpx_file = procPrev)
    /\ (procOp = "load_file" /\ procOut = "self") => IsLoaded(hwpx_file)
    /\ procEver => IsLoaded(hwpx_file)
    /\ procOp = "is_loaded" => (procOut = "True" <=> procEver)
    /\ procOp = "extract_text" => hwpx_file = procPrev

\* a load that failed on a processor that held the file of path 2
C23_Witness ==
    /\ procOp = "load_file" /\ procCase = "reader raises"
    /\ procPrev = 2 /\ hwpx_file = 2

----------------------------------------------------------------------------
(* Claims about the batch converter and the batch command *)

\* C26: the batch command exits with a non-zero status, and reports files as
\* failed, only if the conversion of at least one file raised an error: a
\* file skipped because its output already exists and overwrite is not set
\* is not counted as a failure.
C26_ExitStatusCountsFailures ==
    (bPc = "exited" /\ bResult # <<>>) =>
        /\ bExit # 0 => OutcomeCount("failed") >= 1
        /\ bFailed = OutcomeCount("failed")

\* the files reached so far whose output path exists already
ExistingReached == {k \in 1..Len(bOutcome) : bFiles[k].exists}

\* what C27 says of overwrite=false: no existing output path is written, a
\* file whose output exists is counted in total_count and not in
\* success_count, and the loop goes on to the last file
SkipsExisting ==
    ~bOverwrite =>
        /\ \A k \in ExistingReached : k \notin bWritten
        /\ \A k \in ExistingReached : bOutcome[k] # "converted"
        /\ bPc = "done" =>
              /\ Len(bOutcome) = Len(bFiles)
              /\ bResult[2] = Len(bFiles)
              /\ bResult[1] = Len(bFiles) - OutcomeCount("skipped")
                                          - OutcomeCount("failed")

\* C27 as stated: with overwrite=false convert_directory never writes to an
\* output path that already exists: the file is skipped, counted in
\* total_count but not in success_count, and processing continues with the
\* next file; with overwrite=true every discovered file is converted.
C27_SkipOrConvert ==
    /\ SkipsExisting
    /\ ~bOverwrite => \A k \in ExistingReached : bOutcome[k] = "skipped"
    /\ (bOverwrite /\ bPc = "done") =>
          \A k \in 1..Len(bFiles) : bOutcome[k] = "converted"

\* C27 as amended: with overwrite=false convert_directory never writes to an
\* output path that already exists: the file is skipped, or failed when
\* computing its output path raised, it is counted in total_count but not in
\* success_count, and processing continues with the next file; with
\* overwrite=true no discovered file is skipped, and every file is converted
\* unless an exception is raised while it is processed.
C27_SkipOrAttempt ==
    /\ SkipsExisting
    /\ ~bOverwrite =>
          \A k \in ExistingReached : bOutcome[k] \in {"skipped", "failed"}
    /\ bOverwrite => \A k \in 1..Len(bOutcome) : bOutcome[k] # "skipped"
    /\ (bOverwrite /\ bPc = "done") =>
          \A k \in 1..Len(bFiles) : bOutcome[k] \in {"converted", "failed"}

\* without overwrite, a file whose output exists was skipped and the next
\* file, whose output did not exist, was converted and written
C27_Witness ==
    /\ bPc = "done" /\ ~bOverwrite
    /\ Len(bFiles) = 2
    /\ bFiles[1].exists /\ bOutcome[1] = "skipped"
    /\ ~bFiles[2].exists /\ bOutcome[2] = "converted"
    /\ bWritten = {2}
    /\ bResult = <<1, 2>>

----------------------------------------------------------------------------
(* Claims about the table detector as a state machine *)

\* line k of the scanned text is a tab-delimited candidate line
CandidateAt(k) == LineKind(LineAt(ftLines, k)) = "row"

\* the index after the last line of the run of candidate lines starting at k
RunEnd(k) ==
    LET stops == {j \in k..(Len(ftLines) - 1) : ~CandidateAt(j)}
    IN  IF stops = {} THEN Len(ftLines) ELSE SetMin(stops)

\* the index of the first line of the run of candidate lines ending at k
RunStart(k) ==
    LET stops == {j \in 0..k : ~CandidateAt(j)}
    IN  IF stops = {} THEN 0 ELSE SetMax(stops) + 1

\* the tab-separated fields of lines[a..b-1], one row per line, in order
FieldsOf(a, b) ==
    [j \in 1..(b - a) |-> Split(LineAt(ftLines, a + j - 1), "\t")]

\* the output lines for lines[k..]: every line that is no candidate as it
\* is, every run of candidate lines rendered as one table in its place
RECURSIVE PassThrough(_)
PassThrough(k) ==
    IF k >= Len(ftLines) THEN <<>>
    ELSE IF CandidateAt(k)
         THEN CreateMarkdownTable(FieldsOf(k, RunEnd(k)))
              \o PassThrough(RunEnd(k))
         ELSE <<LineAt(ftLines, k)>> \o PassThrough(k + 1)

\* the scanner is inside a table: the line read last was a candidate line
Accumulating == ftInTable

\* C28: in the table detector the accumulator is empty whenever the scanner
\* is not inside a table; every tab-delimited candidate line is rendered in
\* exactly one table, in its original order; every other line, blank or
\* not, is passed through unchanged in its original relative order; and a
\* group still open at the end of the input is flushed.
C28_TableStateMachine ==
    /\ ~Accumulating => ftRows = <<>>
    /\ (ftPc = "scan" /\ ftK > 0) => (Accumulating <=> CandidateAt(ftK - 1))
    /\ (ftPc = "scan" /\ Accumulating) =>
            ftRows = FieldsOf(RunStart(ftK - 1), ftK)
    /\ \A g \in 1..Len(ftGroups) :
            /\ ftGroups[g].first <= ftGroups[g].last
            /\ \A j \in ftGroups[g].first..ftGroups[g].last : CandidateAt(j)
            /\ ftGroups[g].rows =
                   FieldsOf(ftGroups[g].first, ftGroups[g].last + 1)
            /\ g > 1 => ftGroups[g - 1].last < ftGroups[g].first
    /\ ftPc = "done" =>
            /\ \A j \in 0..(Len(ftLines) - 1) :
                   CandidateAt(j) =>
                       Cardinality({g \in 1..Len(ftGroups) :
                                       /\ ftGroups[g].first <= j
                                       /\ j <= ftGroups[g].last}) = 1
            /\ ftOut = PassThrough(0)

\* a table closed by a line of text, that line passed through, and a second
\* table still open at the end of the input and flushed
C28_Witness ==
    /\ ftPc = "done"
    /\ Len(ftLines) = 4
    /\ CandidateAt(0) /\ ~CandidateAt(1) /\ CandidateAt(2) /\ CandidateAt(3)
    /\ Len(ftGroups) = 2
    /\ ftGroups[2].first = 2 /\ ftGroups[2].last = 3

====
